---------------------------- MODULE Spec2Model ----------------------------
(***************************************************************************)
(* A state-machine model of the Flint repathing engine                     *)
(* (src-tauri/src/core/repath/refather.rs, repath_project and its          *)
(* helpers) over an abstract content tree.                                 *)
(*                                                                         *)
(* Strings are sequences of one-character strings, so that to_lowercase,   *)
(* replace, starts_with, ends_with and byte slicing are modelled by what   *)
(* they do.  The alphabet is ASCII: one character is one byte.             *)
(*                                                                         *)
(* The content tree is a POSIX-like, case-sensitive file system: `files`   *)
(* maps each relative path of a regular file to its content, `dirs` is the *)
(* set of directories, the content root being the empty path <<>>.         *)
(*                                                                         *)
(* External collaborators that are not part of refather.rs (the codec, the *)
(* classifier classify_bin, the merge routine concatenate_linked_bins)     *)
(* are modelled by their contracts: the classifier is an arbitrary but     *)
(* fixed function `classify`, the merge either fails or consumes a set of  *)
(* linked documents, a document parses iff its content is a document.      *)
(***************************************************************************)
EXTENDS Integers, Sequences, FiniteSets, TLC

VARIABLES
    files,          \* [path -> content]: the regular files under the content root
    dirs,           \* set of directory paths; <<>> is the content root itself
    classify,       \* the classifier's table: normalized path -> category
    pc,             \* position of repath_project
    config,         \* RepathConfig of the call
    mapping,        \* path_mappings of the call
    mainBin,        \* main_bin_path: <<>> (None) or <<path>> (Some)
    binFiles,       \* bin_files: Vec<PathBuf>, relative to the content root
    allAssetPaths,  \* all_asset_paths: HashSet<String>
    existing,       \* existing_paths: HashSet<String>
    binIdx,         \* position of the Step 4 loop in bin_files
    relocTodo,      \* members of existing_paths the Step 5 loop has not visited
    relocated,      \* the local counter `relocated` of relocate_assets
    result,         \* RepathResult being accumulated
    ret,            \* what repath_project returned: "none", "Ok", "InvalidInput", "Io"
    ops,            \* history: every file system mutation, in order
    hist,           \* history: snapshots taken at phase boundaries
    pf,             \* one application of a function on its own: its arguments, out, done
    host            \* a machine's file system and two invocations of the command on it

vars == <<files, dirs, classify, pc, config, mapping, mainBin, binFiles,
          allAssetPaths, existing, binIdx, relocTodo, relocated, result, ret,
          ops, hist, pf, host>>

engineVars == <<files, dirs, classify, pc, config, mapping, mainBin, binFiles,
                allAssetPaths, existing, binIdx, relocTodo, relocated, result,
                ret, ops, hist, host>>

oneRunVars == <<files, dirs, classify, pc, config, mapping, mainBin, binFiles,
                allAssetPaths, existing, binIdx, relocTodo, relocated, result,
                ret, ops, hist, pf>>

---------------------------------------------------------------------------
(* Characters and strings                                                  *)

UpperToLower ==
    [A |-> "a", B |-> "b", C |-> "c", D |-> "d", E |-> "e", F |-> "f",
     G |-> "g", H |-> "h", I |-> "i", J |-> "j", K |-> "k", L |-> "l",
     M |-> "m", N |-> "n", O |-> "o", P |-> "p", Q |-> "q", R |-> "r",
     S |-> "s", T |-> "t", U |-> "u", V |-> "v", W |-> "w", X |-> "x",
     Y |-> "y", Z |-> "z"]

\* char::to_lowercase on the ASCII alphabet
LowerChar(c) == IF c \in DOMAIN UpperToLower THEN UpperToLower[c] ELSE c

\* str::to_lowercase
ToLowercase(s) == [i \in 1..Len(s) |-> LowerChar(s[i])]

\* str::replace(from, to) for one-character patterns
ReplaceChar(s, from, to) == [i \in 1..Len(s) |-> IF s[i] = from THEN to ELSE s[i]]

\* str::starts_with
StartsWith(s, pre) == Len(s) >= Len(pre) /\ SubSeq(s, 1, Len(pre)) = pre

\* str::ends_with
EndsWith(s, suf) ==
    Len(s) >= Len(suf) /\ SubSeq(s, Len(s) - Len(suf) + 1, Len(s)) = suf

\* str::contains
Contains(s, sub) ==
    \E i \in 1..(Len(s) - Len(sub) + 1) : SubSeq(s, i, i + Len(sub) - 1) = sub

\* &s[n..]: the slice from byte offset n (0-based) to the end
SliceFrom(s, n) == SubSeq(s, n + 1, Len(s))

DigitChars == <<"0", "1", "2", "3", "4", "5", "6", "7", "8", "9">>

\* format!("{}", n) for n < 100
FormatDec(n) ==
    IF n < 10 THEN <<DigitChars[n + 1]>>
    ELSE <<DigitChars[(n \div 10) + 1], DigitChars[(n % 10) + 1]>>

\* format!("{:02}", n) for n < 100
FormatDec02(n) == <<DigitChars[(n \div 10) + 1], DigitChars[(n % 10) + 1]>>

strAssetsLc  == <<"a", "s", "s", "e", "t", "s", "/">>
strDataLc    == <<"d", "a", "t", "a", "/">>
strAssetsUc  == <<"A", "S", "S", "E", "T", "S", "/">>
strDotBin    == <<".", "b", "i", "n">>
strBin       == <<"b", "i", "n">>
strConcat    == <<"_", "_", "c", "o", "n", "c", "a", "t">>
strSkin      == <<"s", "k", "i", "n">>
strCharsDir  == <<"d", "a", "t", "a", "/", "c", "h", "a", "r", "a", "c", "t", "e", "r", "s", "/">>
strSkinsDir  == <<"/", "s", "k", "i", "n", "s", "/", "s", "k", "i", "n">>

---------------------------------------------------------------------------
(* refather.rs: the pure helpers                                           *)

\* is_asset_path without the "data/" alternative
IsAssetPathAssetsOnly(s) == StartsWith(ToLowercase(s), strAssetsLc)

\* is_asset_path
IsAssetPath(s) ==
    LET lower == ToLowercase(s)
    IN  StartsWith(lower, strAssetsLc) \/ StartsWith(lower, strDataLc)

\* normalize_path
NormalizePath(s) == ReplaceChar(ToLowercase(s), "\\", "/")

\* apply_prefix_to_path, with a root token other than the one the code strips
ApplyPrefixKeepSlashless(path, prefix) ==
    LET lower == ToLowercase(path)
    IN  IF StartsWith(lower, strAssetsLc)
        THEN strAssetsUc \o prefix \o SliceFrom(path, 7)
        ELSE IF StartsWith(lower, strDataLc)
        THEN strAssetsUc \o prefix \o SliceFrom(path, 5)
        ELSE strAssetsUc \o prefix \o <<"/">> \o path

\* apply_prefix_to_path
ApplyPrefixToPath(path, prefix) ==
    LET lower == ToLowercase(path)
    IN  IF StartsWith(lower, strAssetsLc)
        THEN strAssetsUc \o prefix \o SliceFrom(path, 6)
        ELSE IF StartsWith(lower, strDataLc)
        THEN strAssetsUc \o prefix \o SliceFrom(path, 4)
        ELSE strAssetsUc \o prefix \o <<"/">> \o path

\* RepathConfig::prefix
Prefix(cfg) ==
    ReplaceChar(cfg.creator_name, " ", "-") \o <<"/">>
        \o ReplaceChar(cfg.project_name, " ", "-")

---------------------------------------------------------------------------
(* Paths and the file system (std::path, std::fs, walkdir)                 *)

SlashPositions(p) == {i \in 1..Len(p) : p[i] = "/"}

MaxOf(S) == CHOOSE x \in S : \A y \in S : y <= x

\* Path::file_name
FileName(p) ==
    IF SlashPositions(p) = {} THEN p
    ELSE SliceFrom(p, MaxOf(SlashPositions(p)))

\* Path::parent of a relative path; <<>> is the content root
Parent(p) ==
    IF SlashPositions(p) = {} THEN <<>>
    ELSE SubSeq(p, 1, MaxOf(SlashPositions(p)) - 1)

\* every directory on the way from the content root down to p's parent
Ancestors(p) == {<<>>} \cup {SubSeq(p, 1, i - 1) : i \in SlashPositions(p)}

\* Path::extension().eq_ignore_ascii_case("bin")
HasBinExtension(p) ==
    LET f == FileName(p)
        dots == {i \in 2..Len(f) : f[i] = "."}
    IN  /\ dots # {}
        /\ ToLowercase(SliceFrom(f, MaxOf(dots))) = strBin

\* Path::exists answering yes for every path
ExistsAlways(fs, ds, p) == TRUE

\* Path::exists of content_base.join(p)
Exists(fs, ds, p) == p \in DOMAIN fs \/ p \in ds

\* the regular files a WalkDir of the content root yields
WalkFiles(fs, ds) == IF <<>> \in ds THEN DOMAIN fs ELSE {}

\* the files of a walk that pass the "bin" extension filter
WalkBins(fs, ds) == {p \in WalkFiles(fs, ds) : HasBinExtension(p)}

\* a function with one key removed / set
Without(f, S) == [k \in DOMAIN f \ S |-> f[k]]
With(f, k, v) == [x \in DOMAIN f \cup {k} |-> IF x = k THEN v ELSE f[x]]

\* an arbitrary but fixed enumeration of a finite set (iteration order that
\* does not influence the outcome)
RECURSIVE SetToSeq(_)
SetToSeq(S) ==
    IF S = {} THEN <<>>
    ELSE LET x == CHOOSE y \in S : TRUE IN <<x>> \o SetToSeq(S \ {x})

RECURSIVE SumSeq(_)
SumSeq(s) == IF s = <<>> THEN 0 ELSE Head(s) + SumSeq(Tail(s))

SeqToSet(s) == {s[i] : i \in 1..Len(s)}

---------------------------------------------------------------------------
(* The value tree (ltk_meta::PropertyValueEnum) and documents              *)
(*                                                                         *)
(* A value is [k, s, items, keys]: k the variant, s the string of a String *)
(* leaf, items the children (elements, property values, the contained      *)
(* value of an Optional, the values of a Map), keys the keys of a Map,     *)
(* keys[i] being the key of items[i].                                      *)

Str(s)          == [k |-> "String",    s |-> s,    items |-> <<>>,  keys |-> <<>>]
Prim            == [k |-> "Other",     s |-> <<>>, items |-> <<>>,  keys |-> <<>>]
Container(it)   == [k |-> "Container", s |-> <<>>, items |-> it,    keys |-> <<>>]
Unordered(it)   == [k |-> "UnorderedContainer", s |-> <<>>, items |-> it, keys |-> <<>>]
Struct(it)      == [k |-> "Struct",    s |-> <<>>, items |-> it,    keys |-> <<>>]
Embedded(it)    == [k |-> "Embedded",  s |-> <<>>, items |-> it,    keys |-> <<>>]
Optional(it)    == [k |-> "Optional",  s |-> <<>>, items |-> it,    keys |-> <<>>]
Map(ks, vs)     == [k |-> "Map",       s |-> <<>>, items |-> vs,    keys |-> ks]

ChildKinds == {"Container", "UnorderedContainer", "Struct", "Embedded", "Optional"}

\* a file's content: a document the codec parses (ok), or other bytes (id)
Doc(deps, objects) == [ok |-> TRUE,  id |-> 0,  deps |-> deps, objects |-> objects]
Raw(id)            == [ok |-> FALSE, id |-> id, deps |-> <<>>, objects |-> <<>>]

\* collect_paths_from_value: the normalized asset paths under a value
RECURSIVE CollectPathsFromValue(_)
CollectPathsFromValue(v) ==
    CASE v.k = "String" ->
            IF IsAssetPath(v.s) THEN {NormalizePath(v.s)} ELSE {}
      [] v.k \in ChildKinds ->
            UNION {CollectPathsFromValue(v.items[i]) : i \in 1..Len(v.items)}
      [] v.k = "Map" ->
            UNION {CollectPathsFromValue(v.keys[i])
                     \cup CollectPathsFromValue(v.items[i]) : i \in 1..Len(v.items)}
      [] OTHER -> {}

\* the values scan_bin_for_paths and repath_bin_file walk: every property
\* value of every object
TopValues(doc) ==
    UNION {{doc.objects[i][j] : j \in 1..Len(doc.objects[i])} : i \in 1..Len(doc.objects)}

\* fs::read followed by read_bin: whether a path yields a document
Readable(fs, p) == p \in DOMAIN fs /\ fs[p].ok

\* scan_bin_for_paths on a readable document
ScanBinForPaths(doc) == UNION {CollectPathsFromValue(v) : v \in TopValues(doc)}

\* the test of repath_value on a String leaf, without the existence test
LeafRewrittenIgnoringExisting(s, existingPaths) == IsAssetPath(s)

\* the test of repath_value on a String leaf
LeafRewritten(s, existingPaths) ==
    IsAssetPath(s) /\ NormalizePath(s) \in existingPaths

\* repath_value: the value after the walk
RECURSIVE RepathValue(_, _, _)
RepathValue(v, existingPaths, prefix) ==
    CASE v.k = "String" ->
            IF LeafRewritten(v.s, existingPaths)
            THEN [v EXCEPT !.s = ApplyPrefixToPath(v.s, prefix)]
            ELSE v
      [] v.k \in ChildKinds \cup {"Map"} ->
            [v EXCEPT !.items =
                [i \in 1..Len(v.items) |-> RepathValue(v.items[i], existingPaths, prefix)]]
      [] OTHER -> v

\* repath_value: the count it returns
RECURSIVE RepathCount(_, _)
RepathCount(v, existingPaths) ==
    CASE v.k = "String" ->
            IF LeafRewritten(v.s, existingPaths) THEN 1 ELSE 0
      [] v.k \in ChildKinds \cup {"Map"} ->
            SumSeq([i \in 1..Len(v.items) |-> RepathCount(v.items[i], existingPaths)])
      [] OTHER -> 0

\* repath_bin_file: modified_count of a readable document
ModifiedCount(doc, existingPaths) ==
    SumSeq([i \in 1..Len(doc.objects) |->
        SumSeq([j \in 1..Len(doc.objects[i]) |->
            RepathCount(doc.objects[i][j], existingPaths)])])

\* the test of line 344 dropped: every parsed document is written back
DocumentChangedAlways(modifiedCount) == TRUE

\* repath_bin_file, line 344: whether the document is serialized and written
DocumentChanged(modifiedCount) == modifiedCount > 0

\* repath_bin_file: the document after the walk
RepathedDoc(doc, existingPaths, prefix) ==
    [doc EXCEPT !.objects =
        [i \in 1..Len(doc.objects) |->
            [j \in 1..Len(doc.objects[i]) |->
                RepathValue(doc.objects[i][j], existingPaths, prefix)]]]

\* every String leaf the rewriter can reach (values, never map keys)
RECURSIVE ValueLeaves(_)
ValueLeaves(v) ==
    CASE v.k = "String" -> {v.s}
      [] v.k \in ChildKinds \cup {"Map"} ->
            UNION {ValueLeaves(v.items[i]) : i \in 1..Len(v.items)}
      [] OTHER -> {}

DocLeaves(doc) == UNION {ValueLeaves(v) : v \in TopValues(doc)}

---------------------------------------------------------------------------
(* External collaborators, by contract                                     *)

Categories == {"ChampionRoot", "Animation", "LinkedData", "Ignore"}

\* classify_bin: a pure function of the path it is given; paths outside the
\* table are ordinary linked documents
Classify(p) == IF p \in DOMAIN classify THEN classify[p] ELSE "LinkedData"

\* where concatenate_linked_bins writes the combined document
ConcatPath == strDataLc \o <<"c">> \o strConcat \o strDotBin

\* the documents concatenate_linked_bins may consume: linked documents of
\* the working set, never the main document
MergeCandidates(fs, bins, main) ==
    {p \in SeqToSet(bins) : p # main /\ Readable(fs, p)}

\* the combined document: the objects of the consumed documents
RECURSIVE ConcatObjects(_, _)
ConcatObjects(fs, srcSeq) ==
    IF srcSeq = <<>> THEN <<>>
    ELSE fs[Head(srcSeq)].objects \o ConcatObjects(fs, Tail(srcSeq))

---------------------------------------------------------------------------
(* refather.rs: the steps of repath_project                                *)

ZeroResult ==
    [bins_processed |-> 0, paths_modified |-> 0, files_relocated |-> 0,
     bins_combined |-> 0, files_removed |-> 0, missing_paths |-> <<>>]

\* one entry of the history of file system mutations
Op(phase, op, path, from) == [phase |-> phase, op |-> op, path |-> path, from |-> from]

OpsOf(phase, op, pathSet) ==
    LET sq == SetToSeq(pathSet)
    IN  [i \in 1..Len(sq) |-> Op(phase, op, sq[i], <<>>)]

Snapshot == [files |-> files, dirs |-> dirs, bins |-> binFiles]

\* the snapshot taken when `phase` is entered, by a step that leaves the
\* file system alone
Entering(phase) == [hist EXCEPT !.snap = With(hist.snap, phase, Snapshot)]

\* the snapshot taken when `phase` is entered, by a step that leaves the
\* file system as fs, ds
EnteringWith(phase, fs, ds) ==
    [hist EXCEPT !.snap = With(hist.snap, phase,
                               [files |-> fs, dirs |-> ds, bins |-> binFiles])]

\* the guard of lines 59-64 that never fires
ContentBaseMissingNever(ds) == FALSE

\* !content_base.exists()
ContentBaseMissing(ds) == <<>> \notin ds

\* the two candidate paths of find_main_skin_bin
SkinPatterns(champion, skinId) ==
    LET lower == ToLowercase(champion)
    IN  << strCharsDir \o lower \o strSkinsDir \o FormatDec(skinId) \o strDotBin,
           strCharsDir \o lower \o strSkinsDir \o FormatDec02(skinId) \o strDotBin >>

\* find_main_skin_bin without the scan of lines 578-598
FindMainSkinBinDirectOnly(fs, ds, champion, skinId) ==
    LET pats == SkinPatterns(champion, skinId)
    IN  IF Exists(fs, ds, pats[1]) THEN {<<pats[1]>>}
        ELSE IF Exists(fs, ds, pats[2]) THEN {<<pats[2]>>}
        ELSE {<<>>}

\* find_main_skin_bin: the results it can return, <<>> for None; the walk
\* order of the fallback scan decides between several matches
FindMainSkinBin(fs, ds, champion, skinId) ==
    LET pats == SkinPatterns(champion, skinId)
        hits == {p \in WalkBins(fs, ds) : NormalizePath(p) \in SeqToSet(pats)}
    IN  IF Exists(fs, ds, pats[1]) THEN {<<pats[1]>>}
        ELSE IF Exists(fs, ds, pats[2]) THEN {<<pats[2]>>}
        ELSE IF hits = {} THEN {<<>>}
        ELSE {<<p>> : p \in hits}

\* the resolution with path_mappings never consulted
ResolveIdentity(map, normalized) == normalized

\* path_mappings.get(&normalized).cloned().unwrap_or_else(|| normalized.clone())
Resolve(map, normalized) ==
    IF normalized \in DOMAIN map THEN map[normalized] ELSE normalized

\* the body of the loop with the Ignore arm taken out: an Ignore dependency
\* is pushed onto the working set like any other
ResolveDepKeepingIgnored(dep, acc, ds, map) ==
    LET normalized == NormalizePath(dep)
        actual == Resolve(map, normalized)
    IN  IF Exists(acc.fs, ds, actual)
        THEN [acc EXCEPT !.bins = Append(acc.bins, actual)]
        ELSE acc

\* lines 93-124: the body of the loop over bin.dependencies, for one
\* dependency; acc is [fs, bins, ops]
ResolveDep(dep, acc, ds, map) ==
    LET normalized == NormalizePath(dep)
        actual == Resolve(map, normalized)
    IN  IF Classify(normalized) = "Ignore"
        THEN IF actual \in DOMAIN acc.fs
             THEN [acc EXCEPT !.fs = Without(acc.fs, {actual}),
                              !.ops = Append(acc.ops,
                                        Op("discover", "remove_file", actual, <<>>))]
             ELSE acc
        ELSE IF Exists(acc.fs, ds, actual)
             THEN [acc EXCEPT !.bins = Append(acc.bins, actual)]
             ELSE acc

\* the loop over bin.dependencies (lines 93-124), in declaration order
RECURSIVE ResolveDeps(_, _, _, _)
ResolveDeps(deps, acc, ds, map) ==
    IF deps = <<>> THEN acc
    ELSE ResolveDeps(Tail(deps), ResolveDep(Head(deps), acc, ds, map), ds, map)

\* bin_files after a successful merge with the retain of lines 179-183 left out
BinFilesAfterMergeKeepingSources(bins, concatPath, concatExists, sourcePaths) ==
    IF concatExists THEN Append(bins, concatPath) ELSE bins

\* lines 171-185: bin_files after a successful merge
BinFilesAfterMerge(bins, concatPath, concatExists, sourcePaths) ==
    SelectSeq(IF concatExists THEN Append(bins, concatPath) ELSE bins,
              LAMBDA p : p \notin sourcePaths)

\* the merge error of lines 186-188, propagated instead of logged
MergeErrorIsFatalAlways == TRUE

\* lines 186-188: whether an error of the merge routine ends the run
MergeErrorIsFatal == FALSE

\* the Step 4 loop left after its first document
RewriteLoopDoneEarly(idx, bins) == idx > 1

\* lines 214-224: the Step 4 loop has visited every element of bin_files
RewriteLoopDone(idx, bins) == idx > Len(bins)

\* the test of line 411 dropped: documents are relocated like assets
IsDocumentPathNever(p) == FALSE

\* relocate_assets, line 411: the test that skips documents
IsDocumentPath(p) == EndsWith(ToLowercase(p), strDotBin)

\* expected_paths without the normalize_path of line 438
ExpectedPathsAsNamespaced(existingPaths, prefix) ==
    {ApplyPrefixToPath(p, prefix) : p \in existingPaths}

\* cleanup_unused_files: expected_paths
ExpectedPaths(existingPaths, prefix) ==
    {NormalizePath(ApplyPrefixToPath(p, prefix)) : p \in existingPaths}

\* cleanup_unused_files: the files the pass removes
UnusedVictims(fs, ds, existingPaths, prefix) ==
    {f \in WalkFiles(fs, ds) :
        /\ ~HasBinExtension(f)
        /\ NormalizePath(f) \notin ExpectedPaths(existingPaths, prefix)}

\* should_remove with the Animation arm comparing the unpadded name only
ShouldRemoveBinUnpaddedOnly(p, champion, skinId) ==
    LET relStr == NormalizePath(p)
        filename == ToLowercase(FileName(p))
        rootBinName == ToLowercase(champion) \o strDotBin
        targetAnimName == strSkin \o FormatDec(skinId) \o strDotBin
        category == Classify(relStr)
    IN  /\ ~Contains(filename, strConcat)
        /\ CASE category = "ChampionRoot" -> TRUE
             [] category = "Animation" -> filename # targetAnimName
             [] category = "LinkedData" -> filename = rootBinName
             [] OTHER -> TRUE

\* should_remove without the skip of lines 498-501 for the combined document
ShouldRemoveBinIgnoringMarker(p, champion, skinId) ==
    LET relStr == NormalizePath(p)
        filename == ToLowercase(FileName(p))
        rootBinName == ToLowercase(champion) \o strDotBin
        targetAnimName == strSkin \o FormatDec(skinId) \o strDotBin
        targetAnimNamePadded == strSkin \o FormatDec02(skinId) \o strDotBin
        category == Classify(relStr)
    IN  CASE category = "ChampionRoot" -> TRUE
          [] category = "Animation" ->
                 filename # targetAnimName /\ filename # targetAnimNamePadded
          [] category = "LinkedData" -> filename = rootBinName
          [] OTHER -> TRUE

\* cleanup_irrelevant_bins: should_remove for one walked document
ShouldRemoveBin(p, champion, skinId) ==
    LET relStr == NormalizePath(p)
        filename == ToLowercase(FileName(p))
        rootBinName == ToLowercase(champion) \o strDotBin
        targetAnimName == strSkin \o FormatDec(skinId) \o strDotBin
        targetAnimNamePadded == strSkin \o FormatDec02(skinId) \o strDotBin
        category == Classify(relStr)
    IN  /\ ~Contains(filename, strConcat)
        /\ CASE category = "ChampionRoot" -> TRUE
             [] category = "Animation" ->
                    filename # targetAnimName /\ filename # targetAnimNamePadded
             [] category = "LinkedData" -> filename = rootBinName
             [] OTHER -> TRUE

\* cleanup_irrelevant_bins: the documents the pass removes
IrrelevantBins(fs, ds, champion, skinId) ==
    {p \in WalkBins(fs, ds) : ShouldRemoveBin(p, champion, skinId)}

\* the number of components of a path
Depth(p) == IF p = <<>> THEN 0 ELSE Cardinality(SlashPositions(p)) + 1

\* cleanup_empty_dirs, lines 546-558: WalkDir with contents_first yields a
\* directory after everything below it; the directories of one depth are
\* visited after those of the depths below, and one with no entry left is
\* removed.  The result is the set of directories that remain.
RECURSIVE ContentsFirstPass(_, _, _)
ContentsFirstPass(fs, ds, depth) ==
    LET entries == (DOMAIN fs \cup ds) \ {<<>>}
        removed == {d \in ds : Depth(d) = depth /\ \A e \in entries : Parent(e) # d}
    IN  IF depth = 0 THEN ds \ removed
        ELSE ContentsFirstPass(fs, ds \ removed, depth - 1)

\* cleanup_empty_dirs removing only the directories that are empty when the
\* pass starts
EmptyDirsAtStart(fs, ds) ==
    IF <<>> \notin ds THEN {}
    ELSE {d \in ds : \A e \in (DOMAIN fs \cup ds) \ {<<>>} : Parent(e) # d}

\* cleanup_empty_dirs: the directories a post-order pass removes, those
\* with no regular file anywhere below them
EmptyDirs(fs, ds) ==
    IF <<>> \notin ds THEN {}
    ELSE {d \in ds : \A f \in DOMAIN fs : d \notin Ancestors(f)}

---------------------------------------------------------------------------
(* repath_project as a state machine                                       *)

\* lines 54-73: the existence check
Call ==
    /\ pc = "idle"
    /\ IF ContentBaseMissing(dirs)
       THEN pc' = "done" /\ ret' = "InvalidInput" /\ hist' = hist
       ELSE pc' = "discover" /\ ret' = ret /\ hist' = Entering("discover")
    /\ UNCHANGED <<files, dirs, classify, config, mapping, mainBin, binFiles,
                   allAssetPaths, existing, binIdx, relocTodo, relocated,
                   result, ops>>
    /\ UNCHANGED <<pf, host>>

\* lines 75-126: a main document is found; its dependencies are resolved
DiscoverMain ==
    /\ pc = "discover"
    /\ config.champion # <<>>
    /\ \E m \in FindMainSkinBin(files, dirs, config.champion, config.target_skin_id) :
        /\ m # <<>>
        /\ mainBin' = m
        /\ LET acc0 == [fs |-> files, bins |-> m, ops |-> <<>>]
               acc == IF Readable(files, m[1])
                      THEN ResolveDeps(files[m[1]].deps, acc0, dirs, mapping)
                      ELSE acc0
           IN  /\ files' = acc.fs
               /\ binFiles' = acc.bins
               /\ ops' = ops \o acc.ops
    /\ pc' = "combine"
    /\ hist' = hist
    /\ UNCHANGED <<dirs, classify, config, mapping, allAssetPaths, existing,
                   binIdx, relocTodo, relocated, result, ret>>
    /\ UNCHANGED <<pf, host>>

\* lines 75-80, 127-155: no main document; every document under the root is
\* scanned, the Ignore ones deleted on the way
DiscoverFallback ==
    /\ pc = "discover"
    /\ \/ config.champion = <<>>
       \/ <<>> \in FindMainSkinBin(files, dirs, config.champion, config.target_skin_id)
    /\ mainBin' = <<>>
    /\ LET scanned == WalkBins(files, dirs)
           ignored == {p \in scanned : Classify(p) = "Ignore"}
       IN  /\ files' = Without(files, ignored)
           /\ binFiles' = SetToSeq(scanned \ ignored)
           /\ ops' = ops \o OpsOf("discover", "remove_file", ignored)
    /\ pc' = "combine"
    /\ hist' = hist
    /\ UNCHANGED <<dirs, classify, config, mapping, allAssetPaths, existing,
                   binIdx, relocTodo, relocated, result, ret>>
    /\ UNCHANGED <<pf, host>>

\* the test of line 160 on the combine flag alone
MergeAttemptedOnFlagAlone == config.combine_linked_bins

\* line 160: whether Step 1 calls the merge routine
MergeAttempted == config.combine_linked_bins /\ mainBin # <<>>

\* lines 159-190 when the merge is not attempted
CombineSkip ==
    /\ pc = "combine"
    /\ ~MergeAttempted
    /\ pc' = "harvest"
    /\ hist' = Entering("combine")
    /\ UNCHANGED <<files, dirs, classify, config, mapping, mainBin, binFiles,
                   allAssetPaths, existing, binIdx, relocTodo, relocated,
                   result, ret, ops>>
    /\ UNCHANGED <<pf, host>>

\* lines 186-188: the merge routine returns an error
CombineErr ==
    /\ pc = "combine"
    /\ MergeAttempted
    /\ IF MergeErrorIsFatal
       THEN pc' = "done" /\ ret' = "Io"
       ELSE pc' = "harvest" /\ ret' = ret
    /\ hist' = [Entering("combine") EXCEPT !.merge = "err"]
    /\ UNCHANGED <<files, dirs, classify, config, mapping, mainBin, binFiles,
                   allAssetPaths, existing, binIdx, relocTodo, relocated,
                   result, ops>>
    /\ UNCHANGED <<pf, host>>

\* lines 171-185: the merge routine consumed `src` and wrote the combined
\* document (none when it consumed nothing)
CombineOk ==
    /\ pc = "combine"
    /\ MergeAttempted
    /\ \E src \in SUBSET MergeCandidates(files, binFiles, mainBin[1]) :
        LET made == src # {}
            combined == Doc(<<>>, ConcatObjects(files, SetToSeq(src)))
            fs1 == Without(files, src)
            fs2 == IF made THEN With(fs1, ConcatPath, combined) ELSE fs1
        IN  /\ files' = fs2
            /\ dirs' = IF made THEN dirs \cup Ancestors(ConcatPath) ELSE dirs
            /\ result' = [result EXCEPT !.bins_combined = Cardinality(src)]
            /\ binFiles' = BinFilesAfterMerge(binFiles, ConcatPath,
                                              Exists(fs2, dirs', ConcatPath), src)
            /\ ops' = ops \o OpsOf("combine", "remove_file", src)
                          \o (IF made THEN <<Op("combine", "write", ConcatPath, <<>>)>>
                              ELSE <<>>)
    /\ pc' = "harvest"
    /\ hist' = [Entering("combine") EXCEPT !.merge = "ok"]
    /\ UNCHANGED <<classify, config, mapping, mainBin, allAssetPaths, existing,
                   binIdx, relocTodo, relocated, ret>>
    /\ UNCHANGED <<pf, host>>

\* lines 192-199: Step 2
Harvest ==
    /\ pc = "harvest"
    /\ allAssetPaths' =
         UNION {ScanBinForPaths(files[p]) :
                    p \in {q \in SeqToSet(binFiles) : Readable(files, q)}}
    /\ pc' = "reconcile"
    /\ hist' = Entering("harvest")
    /\ UNCHANGED <<files, dirs, classify, config, mapping, mainBin, binFiles,
                   existing, binIdx, relocTodo, relocated, result, ret, ops>>
    /\ UNCHANGED <<pf, host>>

\* lines 201-210: Step 3
Reconcile ==
    /\ pc = "reconcile"
    /\ existing' = {p \in allAssetPaths : Exists(files, dirs, p)}
    /\ result' = [result EXCEPT
                    !.missing_paths = SetToSeq(allAssetPaths \ existing')]
    /\ binIdx' = 1
    /\ pc' = "rewrite"
    /\ hist' = Entering("rewrite")
    /\ UNCHANGED <<files, dirs, classify, config, mapping, mainBin, binFiles,
                   allAssetPaths, relocTodo, relocated, ret, ops>>
    /\ UNCHANGED <<pf, host>>

\* lines 214-224 with repath_bin_file: one iteration of Step 4
RewriteOne ==
    /\ pc = "rewrite"
    /\ ~RewriteLoopDone(binIdx, binFiles)
    /\ binIdx <= Len(binFiles)
    /\ LET binPath == binFiles[binIdx]
       IN  IF Readable(files, binPath)
           THEN LET n == ModifiedCount(files[binPath], existing)
                IN  /\ files' = IF DocumentChanged(n)
                                THEN [files EXCEPT ![binPath] =
                                        RepathedDoc(@, existing, Prefix(config))]
                                ELSE files
                    /\ ops' = IF DocumentChanged(n)
                              THEN Append(ops, Op("rewrite", "write", binPath, <<>>))
                              ELSE ops
                    /\ result' = [result EXCEPT
                                    !.bins_processed = @ + 1,
                                    !.paths_modified = @ + n]
           ELSE UNCHANGED <<files, ops, result>>
    /\ binIdx' = binIdx + 1
    /\ UNCHANGED <<dirs, classify, pc, config, mapping, mainBin, binFiles,
                   allAssetPaths, existing, relocTodo, relocated, ret, hist>>
    /\ UNCHANGED <<pf, host>>

\* the end of the Step 4 loop, and the entry of relocate_assets
RewriteEnd ==
    /\ pc = "rewrite"
    /\ RewriteLoopDone(binIdx, binFiles)
    /\ pc' = "relocate"
    /\ relocTodo' = existing
    /\ relocated' = 0
    /\ hist' = Entering("relocate")
    /\ UNCHANGED <<files, dirs, classify, config, mapping, mainBin, binFiles,
                   allAssetPaths, existing, binIdx, result, ret, ops>>
    /\ UNCHANGED <<pf, host>>

\* relocate_assets, lines 410-428: one iteration, in HashSet order
RelocateOne ==
    /\ pc = "relocate"
    /\ \E path \in relocTodo :
        LET dest == ApplyPrefixToPath(path, Prefix(config))
            blocked == \/ Ancestors(dest) \cap DOMAIN files # {}
                       \/ path \in dirs
                       \/ (path \in DOMAIN files /\ dest \in dirs)
        IN  /\ relocTodo' = relocTodo \ {path}
            /\ IF IsDocumentPath(path)
               THEN UNCHANGED <<files, dirs, relocated, ops, pc, ret>>
               ELSE IF blocked
               THEN /\ pc' = "done"
                    /\ ret' = "Io"
                    /\ UNCHANGED <<files, dirs, relocated, ops>>
               ELSE /\ dirs' = dirs \cup Ancestors(dest)
                    /\ IF path \in DOMAIN files
                       THEN /\ files' = With(Without(files, {path}), dest, files[path])
                            /\ relocated' = relocated + 1
                            /\ ops' = ops \o <<Op("relocate", "copy", dest, path),
                                               Op("relocate", "remove_file", path, <<>>)>>
                       ELSE UNCHANGED <<files, relocated, ops>>
                    /\ UNCHANGED <<pc, ret>>
    /\ UNCHANGED <<classify, config, mapping, mainBin, binFiles, allAssetPaths,
                   existing, binIdx, result, hist>>
    /\ UNCHANGED <<pf, host>>

\* relocate_assets returns Ok(relocated); line 227
RelocateEnd ==
    /\ pc = "relocate"
    /\ relocTodo = {}
    /\ result' = [result EXCEPT !.files_relocated = relocated]
    /\ pc' = "cleanup_unused"
    /\ hist' = Entering("cleanup_unused")
    /\ UNCHANGED <<files, dirs, classify, config, mapping, mainBin, binFiles,
                   allAssetPaths, existing, binIdx, relocTodo, relocated, ret, ops>>
    /\ UNCHANGED <<pf, host>>

\* relocate_assets: create_dir_all, copy or remove_file fails for one asset;
\* the error is propagated by `?` (lines 420, 424, 425, 227)
RelocateFail ==
    /\ pc = "relocate"
    /\ \E path \in relocTodo, step \in {"create_dir_all", "copy", "remove_file"} :
        LET dest == ApplyPrefixToPath(path, Prefix(config))
        IN  /\ ~IsDocumentPath(path)
            /\ path \in DOMAIN files
            /\ Ancestors(dest) \cap DOMAIN files = {}
            /\ dest \notin dirs
            /\ dirs' = IF step = "create_dir_all" THEN dirs
                       ELSE dirs \cup Ancestors(dest)
            /\ files' = IF step = "remove_file"
                        THEN With(files, dest, files[path])
                        ELSE files
            /\ ops' = IF step = "remove_file"
                      THEN Append(ops, Op("relocate", "copy", dest, path))
                      ELSE ops
            /\ hist' = [hist EXCEPT !.failed = <<path, step>>]
            /\ relocTodo' = relocTodo \ {path}
    /\ pc' = "done"
    /\ ret' = "Io"
    /\ UNCHANGED <<classify, config, mapping, mainBin, binFiles, allAssetPaths,
                   existing, binIdx, relocated, result>>
    /\ UNCHANGED <<pf, host>>

\* lines 229-232 with cleanup_unused_files: Step 6
CleanupUnused ==
    /\ pc = "cleanup_unused"
    /\ LET victims == IF config.cleanup_unused
                      THEN UnusedVictims(files, dirs, existing, Prefix(config))
                      ELSE {}
       IN  /\ files' = Without(files, victims)
           /\ ops' = ops \o OpsOf("cleanup_unused", "remove_file", victims)
           /\ result' = IF config.cleanup_unused
                        THEN [result EXCEPT !.files_removed = Cardinality(victims)]
                        ELSE result
    /\ pc' = "cleanup_bins"
    /\ hist' = EnteringWith("cleanup_bins", files', dirs)
    /\ UNCHANGED <<dirs, classify, config, mapping, mainBin, binFiles,
                   allAssetPaths, existing, binIdx, relocTodo, relocated, ret>>
    /\ UNCHANGED <<pf, host>>

\* Step 7 with the count of cleanup_irrelevant_bins added to files_removed
CleanupBinsCounted ==
    /\ pc = "cleanup_bins"
    /\ LET victims == IrrelevantBins(files, dirs, config.champion,
                                     config.target_skin_id)
       IN  /\ files' = Without(files, victims)
           /\ ops' = ops \o OpsOf("cleanup_bins", "remove_file", victims)
           /\ result' = [result EXCEPT !.files_removed = @ + Cardinality(victims)]
    /\ pc' = "prune"
    /\ hist' = EnteringWith("prune", files', dirs)
    /\ UNCHANGED <<dirs, classify, config, mapping, mainBin, binFiles,
                   allAssetPaths, existing, binIdx, relocTodo, relocated, ret>>
    /\ UNCHANGED <<pf, host>>

\* line 235 with cleanup_irrelevant_bins: Step 7
CleanupBins ==
    /\ pc = "cleanup_bins"
    /\ LET victims == IrrelevantBins(files, dirs, config.champion,
                                     config.target_skin_id)
       IN  /\ files' = Without(files, victims)
           /\ ops' = ops \o OpsOf("cleanup_bins", "remove_file", victims)
    /\ pc' = "prune"
    /\ hist' = EnteringWith("prune", files', dirs)
    /\ UNCHANGED <<dirs, classify, config, mapping, mainBin, binFiles,
                   allAssetPaths, existing, binIdx, relocTodo, relocated,
                   result, ret>>
    /\ UNCHANGED <<pf, host>>

\* lines 238-247 with cleanup_empty_dirs: Step 8, then Ok(result)
Prune ==
    /\ pc = "prune"
    /\ LET gone == EmptyDirs(files, dirs)
       IN  /\ dirs' = dirs \ gone
           /\ ops' = ops \o OpsOf("prune", "remove_dir", gone)
    /\ pc' = "done"
    /\ ret' = "Ok"
    /\ hist' = EnteringWith("done", files, dirs')
    /\ UNCHANGED <<files, classify, config, mapping, mainBin, binFiles,
                   allAssetPaths, existing, binIdx, relocTodo, relocated, result>>
    /\ UNCHANGED <<pf, host>>

Next ==
    \/ Call
    \/ DiscoverMain
    \/ DiscoverFallback
    \/ CombineSkip
    \/ CombineErr
    \/ CombineOk
    \/ Harvest
    \/ Reconcile
    \/ RewriteOne
    \/ RewriteEnd
    \/ RelocateOne
    \/ RelocateEnd
    \/ CleanupUnused
    \/ CleanupBins
    \/ Prune

NextFault == Next \/ RelocateFail

---------------------------------------------------------------------------
(* The content trees and calls explored                                    *)

\* files on disk
pAX == strAssetsLc \o <<"x", ".", "d", "d", "s">>
pDX == strDataLc \o <<"x", ".", "d", "d", "s">>
pAY == strAssetsLc \o <<"y", ".", "d", "d", "s">>
bS0 == SkinPatterns(<<"a">>, 0)[1]
bS1 == SkinPatterns(<<"a">>, 1)[1]
bP1 == SkinPatterns(<<"a">>, 1)[2]
bL  == strDataLc \o <<"a">> \o strDotBin
bM  == strDataLc \o <<"m">> \o strDotBin
bU  == strDataLc \o <<"U">> \o strDotBin

\* strings as documents spell them
lAX  == strAssetsUc \o <<"X", ".", "d", "d", "s">>
lQ   == strAssetsLc \o <<"q", ".", "d", "d", "s">>
lO   == <<"x", ".", "d", "d", "s">>
lBin == <<"D", "A", "T", "A", "/", "A", ".", "B", "I", "N">>
depL == <<"D", "A", "T", "A", "\\", "A", ".", "b", "i", "n">>
depQ == strDataLc \o <<"q">> \o strDotBin

AssetPool == {pAX, pDX, pAY}
BinPool   == {bS0, bS1, bP1, bL, bM}

AssetBytes(p) == Raw(CHOOSE i \in 1..3 : <<pAX, pDX, pAY>>[i] = p)

SkinObjects(withMap) ==
    << << Str(lAX), Container(<<Str(pDX), Optional(<<Str(lQ)>>)>>), Prim >>,
       << Struct(<<Str(lO)>>) >>
          \o (IF withMap THEN <<Map(<<Str(pAY)>>, <<Str(lAX)>>)>> ELSE <<>>) >>

SkinDocs ==
    << Doc(<<depL>>, SkinObjects(FALSE)),
       Doc(<<depQ, depL>>, SkinObjects(TRUE)),
       Raw(9) >>

LinkedDoc == Doc(<<>>, << << Embedded(<<Str(pAX)>>), Unordered(<<Str(lO), Str(lBin)>>) >> >>)

BinContent(p, skinDoc) == IF p \in {bS0, bS1, bP1} THEN SkinDocs[skinDoc] ELSE LinkedDoc

\* the classifier tables explored: the skin documents are linked documents
\* or variant animations, the document named after the entity is anything
\* but an animation, the mapped document is an ordinary linked document; the
\* document whose name on disk is not in normalized form has one class for
\* the normalized path and one for the path as spelled on disk, which the
\* contract of classify_bin does not relate
Classifiers ==
    {[p \in BinPool \cup {bU, NormalizePath(bU), ConcatPath} |->
            IF p \in {bS0, bS1, bP1} THEN s
            ELSE IF p = bL THEN l
            ELSE IF p = bU THEN u
            ELSE IF p = NormalizePath(bU) THEN n
            ELSE IF p = ConcatPath THEN k
            ELSE "LinkedData"] :
        s \in {"LinkedData", "Animation"},
        l \in {"LinkedData", "ChampionRoot", "Ignore"},
        u \in {"LinkedData", "Ignore"},
        n \in {"LinkedData", "Ignore"},
        k \in Categories}

\* path_mappings: empty, or the entity-named document extracted as bM
NoMapping  == <<>>
MapLtoM    == [p \in {bL} |-> bM]

\* the calls explored; an empty entity comes with variant 0 and the combine
\* flag set, as repath_project_cmd passes them
Configs ==
    {c \in [creator_name : {<<"S", " ", "d">>}, project_name : {<<"M">>},
            champion : {<<>>, <<"A">>}, target_skin_id : {0, 1},
            combine_linked_bins : BOOLEAN, cleanup_unused : BOOLEAN] :
        c.champion = <<>> => c.target_skin_id = 0 /\ c.combine_linked_bins}

\* at most this many files under the content root
MaxFiles == 3

InitHist ==
    [snap |-> [k \in {"init"} |-> [files |-> files, dirs |-> dirs, bins |-> <<>>]],
     merge |-> "none", failed |-> <<>>]

IdlePf == [path |-> <<>>, prefix |-> <<>>, out |-> <<>>, done |-> FALSE]

\* no machine: the specifications of one run leave `host` alone
IdleHost ==
    [files |-> <<>>, dirs |-> {}, fold |-> FALSE, inv |-> <<>>,
     start |-> [files |-> <<>>, dirs |-> {}]]

InitRun ==
    /\ pc = "idle"
    /\ mainBin = <<>>
    /\ binFiles = <<>>
    /\ allAssetPaths = {}
    /\ existing = {}
    /\ binIdx = 1
    /\ relocTodo = {}
    /\ relocated = 0
    /\ result = ZeroResult
    /\ ret = "none"
    /\ ops = <<>>

\* a content tree (or none) over the given pools, a classifier and a call.
\* Choices that no step of the run can read are fixed: the skin document's
\* content when no skin document is on disk, the class of a document that is
\* neither on disk nor the target of a dependency.
InitOver(assetPool, binPool) ==
    /\ InitRun
    /\ config \in Configs
    /\ classify \in Classifiers
    /\ \E root \in BOOLEAN, assets \in SUBSET assetPool, bins \in SUBSET binPool,
          skinDoc \in 1..Len(SkinDocs) :
        /\ Cardinality(assets \cup bins) <= MaxFiles
        /\ ~root => assets = {} /\ bins = {}
        /\ bins \cap {bS0, bS1, bP1} = {} =>
                skinDoc = 1 /\ classify[bS0] = "LinkedData"
        /\ bins \cap {bL, bM} = {} => classify[bL] = "LinkedData"
        /\ bU \notin bins =>
                classify[bU] = "LinkedData" /\ classify[NormalizePath(bU)] = "LinkedData"
        /\ ConcatPath \notin binPool => classify[ConcatPath] = "LinkedData"
        /\ mapping = IF bM \in bins THEN MapLtoM ELSE NoMapping
        /\ files = [p \in assets \cup bins |->
                        IF p \in assets THEN AssetBytes(p) ELSE BinContent(p, skinDoc)]
        /\ dirs = IF root THEN UNION {Ancestors(p) : p \in assets \cup bins} \cup {<<>>}
                  ELSE {}
    /\ hist = InitHist
    /\ pf = IdlePf
    /\ host = IdleHost

Init == InitOver(AssetPool, BinPool)

\* trees in which a document's name on disk is not in normalized form
InitScan == InitOver({pAX}, {bS0, bL, bU})

Spec == Init /\ [][Next]_vars

SpecFault == Init /\ [][NextFault]_vars

SpecScan == InitScan /\ [][Next]_vars

\* trees and classifiers in which the combined document, written by the
\* merge or there before the run, is of any class
InitConcat == InitOver({pAX}, {bS0, bL, ConcatPath})

SpecConcat == InitConcat /\ [][Next]_vars

---------------------------------------------------------------------------
(* apply_prefix_to_path on its own: the inputs are drawn in the initial    *)
(* state, the one action applies the function                              *)

\* the rest of a path, after its root token, has at most this many characters
MaxRestLen == 2

RestAlphabet == {"x", "X", "/", "\\", "."}

RestStrings == UNION {[1..n -> RestAlphabet] : n \in 0..MaxRestLen}

UpperChar(c) ==
    IF \E u \in DOMAIN UpperToLower : UpperToLower[u] = c
    THEN CHOOSE u \in DOMAIN UpperToLower : UpperToLower[u] = c
    ELSE c

\* a word with the letters selected by the mask in upper case
CaseMix(word, mask) ==
    [i \in 1..Len(word) |-> IF mask[i] THEN UpperChar(word[i]) ELSE word[i]]

CaseMixes(word) == {CaseMix(word, m) : m \in [1..Len(word) -> BOOLEAN]}

\* every spelling of the two root tokens, followed by a rest
QualifyingPaths ==
    {root \o <<"/">> \o rest :
        root \in CaseMixes(<<"a", "s", "s", "e", "t", "s">>)
                    \cup CaseMixes(<<"d", "a", "t", "a">>),
        rest \in RestStrings}

\* paths that reach the defensive branch
OtherPaths ==
    {<<>>, <<"x">>, <<"a", "s", "s", "e", "t", "s">>, <<"d", "a", "t", "a", "\\", "x">>,
     <<"/", "d", "a", "t", "a", "/">>}

PrefixPool == {<<"P">>, <<"S", "-", "d", "/", "M">>}

InitPrefix ==
    /\ InitRun
    /\ config = CHOOSE c \in Configs : TRUE
    /\ classify = CHOOSE c \in Classifiers : TRUE
    /\ mapping = NoMapping
    /\ files = <<>>
    /\ dirs = {}
    /\ hist = InitHist
    /\ host = IdleHost
    /\ \E path \in QualifyingPaths \cup OtherPaths, prefix \in PrefixPool :
        pf = [path |-> path, prefix |-> prefix, out |-> <<>>, done |-> FALSE]

ApplyPrefixStep ==
    /\ ~pf.done
    /\ pf' = [pf EXCEPT !.out = ApplyPrefixToPath(pf.path, pf.prefix),
                        !.done = TRUE]
    /\ UNCHANGED engineVars

SpecPrefix == InitPrefix /\ [][ApplyPrefixStep]_vars

---------------------------------------------------------------------------
(* find_main_skin_bin on its own                                           *)

\* trees for the discovery of the main document: the two candidates as the
\* function spells them, in other spellings, for another variant, and below
\* another directory
fU0 == <<"D", "A", "T", "A", "/", "C", "h", "a", "r", "a", "c", "t", "e", "r", "s", "/",
         "A", "/", "S", "k", "i", "n", "s", "/", "S", "k", "i", "n", "0", ".", "B", "I", "N">>
fP0 == SkinPatterns(<<"a">>, 0)[2]
fUP0 == strCharsDir \o <<"a">> \o <<"/", "s", "k", "i", "n", "s", "/", "S", "k", "i", "n", "0", "0">>
            \o strDotBin
fDeep == <<"x", "/">> \o bS0

FindPool == {bS0, fP0, fU0, fUP0, bS1, fDeep}

InitFind ==
    /\ InitRun
    /\ config = CHOOSE c \in Configs : TRUE
    /\ classify = CHOOSE c \in Classifiers : TRUE
    /\ mapping = NoMapping
    /\ \E tree \in SUBSET FindPool :
        /\ files = [p \in tree |-> Raw(1)]
        /\ dirs = UNION {Ancestors(p) : p \in tree} \cup {<<>>}
    /\ hist = InitHist
    /\ host = IdleHost
    /\ \E champion \in {<<"A">>, <<"a">>}, skinId \in {0, 1} :
        pf = [champion |-> champion, skin_id |-> skinId, out |-> <<>>, done |-> FALSE]

FindStep ==
    /\ ~pf.done
    /\ \E found \in FindMainSkinBin(files, dirs, pf.champion, pf.skin_id) :
        pf' = [pf EXCEPT !.out = found, !.done = TRUE]
    /\ UNCHANGED engineVars

SpecFind == InitFind /\ [][FindStep]_vars

---------------------------------------------------------------------------
(* export.rs, repath_project_cmd: invocations of the command on one machine *)

(* `host.files` maps the absolute path of each regular file of the machine *)
(* to its content and `host.dirs` is the set of its directories, <<>> the  *)
(* top.  `host.fold` tells whether the file system resolves names without  *)
(* regard to case (NTFS, APFS as installed) or exactly (ext4): when it     *)
(* does, an entry is kept under its lowercased name, so that two spellings *)
(* of one name are one entry.  `host.inv[i]` is the i-th invocation: its   *)
(* content_base, its position, its locals, its result, and the file system *)
(* as it was when each of its steps began.                                 *)

\* lines 75-82 of export.rs: the RepathConfig the command builds
CmdConfig ==
    [creator_name |-> <<"S", " ", "d">>, project_name |-> <<"M">>,
     champion |-> <<>>, target_skin_id |-> 0,
     combine_linked_bins |-> TRUE, cleanup_unused |-> TRUE]

MinOf(S) == CHOOSE x \in S : \A y \in S : x <= y

\* std::path::Path::components
RECURSIVE Components(_)
Components(p) ==
    IF SlashPositions(p) = {} THEN <<p>>
    ELSE LET i == MinOf(SlashPositions(p))
         IN  <<SubSeq(p, 1, i - 1)>> \o Components(SubSeq(p, i + 1, Len(p)))

\* the directory entries the operating system follows for the components:
\* ".." leads to the parent, "." and an empty component stay
RECURSIVE Followed(_, _)
Followed(comps, stack) ==
    IF comps = <<>> THEN stack
    ELSE LET c == Head(comps)
         IN  Followed(Tail(comps),
                      IF c = <<".", ".">>
                      THEN IF stack = <<>> THEN <<>>
                           ELSE SubSeq(stack, 1, Len(stack) - 1)
                      ELSE IF c = <<>> \/ c = <<".">> THEN stack
                      ELSE Append(stack, c))

RECURSIVE JoinComponents(_)
JoinComponents(cs) ==
    IF cs = <<>> THEN <<>>
    ELSE IF Len(cs) = 1 THEN cs[1]
    ELSE cs[1] \o <<"/">> \o JoinComponents(Tail(cs))

\* the entry a path leads to
Canonical(p) == JoinComponents(Followed(Components(p), <<>>))

\* the name under which a path is looked up on a file system that resolves
\* names exactly, whatever host.fold says
KeyExact(h, p) == Canonical(p)

\* the name under which the file system of h keeps the entry a path leads to
Key(h, p) == IF h.fold THEN ToLowercase(Canonical(p)) ELSE Canonical(p)

\* Path::join of a relative path
Join(base, rel) == base \o <<"/">> \o rel

\* every directory the path passes through is there
Passable(h, p) == \A a \in Ancestors(p) : Key(h, a) \in h.dirs

\* Path::exists, Path::is_file, Path::is_dir
ExistsAt(h, p) == Passable(h, p) /\ Key(h, p) \in DOMAIN h.files \cup h.dirs
IsFileAt(h, p) == Passable(h, p) /\ Key(h, p) \in DOMAIN h.files
IsDirAt(h, p)  == Passable(h, p) /\ Key(h, p) \in h.dirs

\* a path that lies below base, and what strip_prefix(base) leaves of it
Below(base, p) == StartsWith(p, base \o <<"/">>)
StripPrefix(base, p) == SliceFrom(p, Len(base) + 1)

\* WalkDir::new(base): the regular files below base, relative to it
WalkAt(h, base) ==
    IF ~IsDirAt(h, base) THEN {}
    ELSE {StripPrefix(Key(h, base), f) :
            f \in {g \in DOMAIN h.files : Below(Key(h, base), g)}}

\* a document of the invocation that read_bin can parse
ReadableAt(h, base, bin) ==
    IsFileAt(h, Join(base, bin)) /\ h.files[Key(h, Join(base, bin))].ok

ContentAt(h, base, rel) == h.files[Key(h, Join(base, rel))]

\* the record of an invocation that has not started
NewInvocation(base) ==
    [content_base |-> base, pc |-> "idle", bin_files |-> {},
     all_asset_paths |-> {}, existing_paths |-> {}, result |-> ZeroResult,
     ret |-> "none", snap |-> <<>>]

\* invocation i moves to `phase`, remembering the file system it leaves
Moved(h, v, phase) ==
    [v EXCEPT !.pc = phase,
              !.snap = With(v.snap, phase, [files |-> h.files, dirs |-> h.dirs])]

Put(h, i, v) == [h EXCEPT !.inv[i] = v]

\* repath_project, lines 59-64: the existence check
CmdCall(h, i) ==
    LET v == h.inv[i]
    IN  IF ~ExistsAt(h, v.content_base)
        THEN Put(h, i, [v EXCEPT !.pc = "done", !.ret = "InvalidInput"])
        ELSE Put(h, i, Moved(h, v, "discover"))

\* lines 76-80: the champion is empty, no main document; lines 127-155: the
\* fallback scan; line 160: nothing to combine
CmdDiscover(h, i) ==
    LET v == h.inv[i]
        scanned == {p \in WalkAt(h, v.content_base) : HasBinExtension(p)}
        ignored == {p \in scanned : Classify(p) = "Ignore"}
        h1 == [h EXCEPT !.files =
                 Without(@, {Key(h, Join(v.content_base, p)) : p \in ignored})]
    IN  Put(h1, i, Moved(h1, [v EXCEPT !.bin_files = scanned \ ignored], "harvest"))

\* lines 192-199: Step 2
CmdHarvest(h, i) ==
    LET v == h.inv[i]
        read == {b \in v.bin_files : ReadableAt(h, v.content_base, b)}
        found == UNION {ScanBinForPaths(ContentAt(h, v.content_base, b)) : b \in read}
    IN  Put(h, i, Moved(h, [v EXCEPT !.all_asset_paths = found], "reconcile"))

\* lines 201-210: Step 3
CmdReconcile(h, i) ==
    LET v == h.inv[i]
        there == {p \in v.all_asset_paths : ExistsAt(h, Join(v.content_base, p))}
    IN  Put(h, i, Moved(h, [v EXCEPT !.existing_paths = there,
                                     !.result.missing_paths =
                                        SetToSeq(v.all_asset_paths \ there)],
                        "rewrite"))

\* lines 213-224 with repath_bin_file: Step 4, every document of bin_files
CmdRewrite(h, i) ==
    LET v == h.inv[i]
        read == {b \in v.bin_files : ReadableAt(h, v.content_base, b)}
        count(b) == ModifiedCount(ContentAt(h, v.content_base, b), v.existing_paths)
        written == {b \in read : DocumentChanged(count(b))}
        keys == {Key(h, Join(v.content_base, b)) : b \in written}
        order == SetToSeq(read)
        h1 == [h EXCEPT !.files =
                 [f \in DOMAIN @ |->
                    IF f \in keys
                    THEN RepathedDoc(@[f], v.existing_paths, Prefix(CmdConfig))
                    ELSE @[f]]]
    IN  Put(h1, i, Moved(h1, [v EXCEPT
                    !.result.bins_processed = @ + Cardinality(read),
                    !.result.paths_modified =
                        @ + SumSeq([k \in 1..Len(order) |-> count(order[k])])],
                  "relocate"))

\* relocate_assets, lines 410-428: the loop over existing_paths, from the
\* file system fs, ds; err is set when create_dir_all or copy fails
RECURSIVE RelocateAssets(_, _, _, _)
RelocateAssets(h, base, todo, acc) ==
    IF todo = <<>> \/ acc.err THEN acc
    ELSE LET path == Head(todo)
             now == [h EXCEPT !.files = acc.files, !.dirs = acc.dirs]
             source == Join(base, path)
             dest == Join(base, ApplyPrefixToPath(path, Prefix(CmdConfig)))
             made == {Key(now, a) : a \in Ancestors(dest)}
             blocked == \/ made \cap DOMAIN acc.files # {}
                        \/ IsDirAt(now, source)
                        \/ (IsFileAt(now, source) /\ Key(now, dest) \in acc.dirs)
         IN  IF IsDocumentPath(path) THEN RelocateAssets(h, base, Tail(todo), acc)
             ELSE IF blocked THEN [acc EXCEPT !.err = TRUE]
             ELSE IF IsFileAt(now, source)
             THEN RelocateAssets(h, base, Tail(todo),
                    [acc EXCEPT
                        !.dirs = @ \cup made,
                        !.files = With(Without(@, {Key(now, source)}),
                                       Key(now, dest), @[Key(now, source)]),
                        !.relocated = @ + 1])
             ELSE RelocateAssets(h, base, Tail(todo), [acc EXCEPT !.dirs = @ \cup made])

\* line 227: Step 5
CmdRelocate(h, i) ==
    LET v == h.inv[i]
        acc == RelocateAssets(h, v.content_base, SetToSeq(v.existing_paths),
                    [files |-> h.files, dirs |-> h.dirs, relocated |-> 0,
                     err |-> FALSE])
        h1 == [h EXCEPT !.files = acc.files, !.dirs = acc.dirs]
    IN  IF acc.err
        THEN Put(h1, i, [v EXCEPT !.pc = "done", !.ret = "Io"])
        ELSE Put(h1, i, Moved(h1, [v EXCEPT !.result.files_relocated = acc.relocated],
                              "cleanup_unused"))

\* lines 229-232 with cleanup_unused_files: Step 6
CmdCleanupUnused(h, i) ==
    LET v == h.inv[i]
        victims == {f \in WalkAt(h, v.content_base) :
                        /\ ~HasBinExtension(f)
                        /\ NormalizePath(f) \notin
                               ExpectedPaths(v.existing_paths, Prefix(CmdConfig))}
        h1 == [h EXCEPT !.files =
                 Without(@, {Key(h, Join(v.content_base, f)) : f \in victims})]
    IN  Put(h1, i, Moved(h1, [v EXCEPT !.result.files_removed = Cardinality(victims)],
                          "cleanup_bins"))

\* line 235 with cleanup_irrelevant_bins: Step 7
CmdCleanupBins(h, i) ==
    LET v == h.inv[i]
        victims == {p \in WalkAt(h, v.content_base) :
                        /\ HasBinExtension(p)
                        /\ ShouldRemoveBin(p, CmdConfig.champion,
                                           CmdConfig.target_skin_id)}
        h1 == [h EXCEPT !.files =
                 Without(@, {Key(h, Join(v.content_base, p)) : p \in victims})]
    IN  Put(h1, i, Moved(h1, v, "prune"))

\* lines 238-247 with cleanup_empty_dirs: Step 8, then Ok(result)
CmdPrune(h, i) ==
    LET v == h.inv[i]
        base == Key(h, v.content_base)
        gone == IF ~IsDirAt(h, v.content_base) THEN {}
                ELSE {d \in h.dirs :
                        /\ d = base \/ Below(base, d)
                        /\ \A f \in DOMAIN h.files : d \notin Ancestors(f)}
        h1 == [h EXCEPT !.dirs = @ \ gone]
    IN  Put(h1, i, [Moved(h1, v, "done") EXCEPT !.ret = "Ok"])

\* the next step of invocation i
CmdStep(h, i) ==
    CASE h.inv[i].pc = "idle"           -> CmdCall(h, i)
      [] h.inv[i].pc = "discover"       -> CmdDiscover(h, i)
      [] h.inv[i].pc = "harvest"        -> CmdHarvest(h, i)
      [] h.inv[i].pc = "reconcile"      -> CmdReconcile(h, i)
      [] h.inv[i].pc = "rewrite"        -> CmdRewrite(h, i)
      [] h.inv[i].pc = "relocate"       -> CmdRelocate(h, i)
      [] h.inv[i].pc = "cleanup_unused" -> CmdCleanupUnused(h, i)
      [] h.inv[i].pc = "cleanup_bins"   -> CmdCleanupBins(h, i)
      [] h.inv[i].pc = "prune"          -> CmdPrune(h, i)
      [] OTHER                          -> h

\* invocation i run from h to its return with nothing else running
RECURSIVE RunAlone(_, _)
RunAlone(h, i) == IF h.inv[i].pc = "done" THEN h ELSE RunAlone(CmdStep(h, i), i)

\* spawn_blocking, export.rs line 84: each invocation is a thread of its own;
\* two invocations over one content_base are started one after the other
MayStep(i) ==
    /\ i \in DOMAIN host.inv
    /\ host.inv[i].pc # "done"
    /\ \A j \in 1..(i - 1) :
            host.inv[j].content_base = host.inv[i].content_base
                => host.inv[j].pc = "done"

InvokeCall ==
    \E i \in 1..2 : MayStep(i) /\ host.inv[i].pc = "idle"
        /\ host' = CmdCall(host, i) /\ UNCHANGED oneRunVars

InvokeDiscover ==
    \E i \in 1..2 : MayStep(i) /\ host.inv[i].pc = "discover"
        /\ host' = CmdDiscover(host, i) /\ UNCHANGED oneRunVars

InvokeHarvest ==
    \E i \in 1..2 : MayStep(i) /\ host.inv[i].pc = "harvest"
        /\ host' = CmdHarvest(host, i) /\ UNCHANGED oneRunVars

InvokeReconcile ==
    \E i \in 1..2 : MayStep(i) /\ host.inv[i].pc = "reconcile"
        /\ host' = CmdReconcile(host, i) /\ UNCHANGED oneRunVars

InvokeRewrite ==
    \E i \in 1..2 : MayStep(i) /\ host.inv[i].pc = "rewrite"
        /\ host' = CmdRewrite(host, i) /\ UNCHANGED oneRunVars

InvokeRelocate ==
    \E i \in 1..2 : MayStep(i) /\ host.inv[i].pc = "relocate"
        /\ host' = CmdRelocate(host, i) /\ UNCHANGED oneRunVars

InvokeCleanupUnused ==
    \E i \in 1..2 : MayStep(i) /\ host.inv[i].pc = "cleanup_unused"
        /\ host' = CmdCleanupUnused(host, i) /\ UNCHANGED oneRunVars

InvokeCleanupBins ==
    \E i \in 1..2 : MayStep(i) /\ host.inv[i].pc = "cleanup_bins"
        /\ host' = CmdCleanupBins(host, i) /\ UNCHANGED oneRunVars

InvokePrune ==
    \E i \in 1..2 : MayStep(i) /\ host.inv[i].pc = "prune"
        /\ host' = CmdPrune(host, i) /\ UNCHANGED oneRunVars

NextHost ==
    \/ InvokeCall
    \/ InvokeDiscover
    \/ InvokeHarvest
    \/ InvokeReconcile
    \/ InvokeRewrite
    \/ InvokeRelocate
    \/ InvokeCleanupUnused
    \/ InvokeCleanupBins
    \/ InvokePrune

\* two projects side by side, and what their documents may name
cb1 == <<"r", "1">>
cb2 == <<"r", "2">>
hDoc == strDataLc \o <<"k">> \o strDotBin
hOut == <<"d", "a", "t", "a", "/", ".", ".", "/", ".", ".", "/", "r", "2", "/">> \o pDX

HostDoc(leaf) == Doc(<<>>, << << Str(leaf), Container(<<Str(lO)>>) >> >>)

TreeDirs(paths) == UNION {Ancestors(p) : p \in paths} \cup {<<>>}

\* the state of the variables of one run while invocations of the command
\* are explored
InitOneRunIdle ==
    /\ InitRun
    /\ config = CmdConfig
    /\ classify = CHOOSE c \in Classifiers : TRUE
    /\ mapping = NoMapping
    /\ files = <<>>
    /\ dirs = {}
    /\ hist = InitHist
    /\ pf = IdlePf

\* the machine before any invocation
StartOf(h) ==
    [h EXCEPT !.files = h.start.files, !.dirs = h.start.dirs,
              !.inv = [i \in DOMAIN h.inv |-> NewInvocation(h.inv[i].content_base)]]

HostOver(tree, fold, bases) ==
    [files |-> tree, dirs |-> TreeDirs(DOMAIN tree), fold |-> fold,
     inv |-> [i \in 1..Len(bases) |-> NewInvocation(bases[i])],
     start |-> [files |-> tree, dirs |-> TreeDirs(DOMAIN tree)]]

\* two invocations over the content roots of two projects: the document of
\* the first names an asset of its own project or one by a path that leaves
\* it; each asset is on disk or not
InitPair ==
    /\ InitOneRunIdle
    /\ \E leaf \in {pDX, hOut}, fold \in BOOLEAN, assets \in SUBSET {cb1, cb2},
          docs \in SUBSET {cb1, cb2} :
        host = HostOver(
                 [p \in {Join(b, hDoc) : b \in docs} \cup {Join(b, pDX) : b \in assets}
                    |-> IF p = Join(cb1, hDoc) THEN HostDoc(leaf)
                        ELSE IF p = Join(cb2, hDoc) THEN HostDoc(pDX)
                        ELSE Raw(IF p = Join(cb1, pDX) THEN 1 ELSE 2)],
                 fold, <<cb1, cb2>>)

SpecPair == InitPair /\ [][NextHost]_vars

\* a file that lies, before any run, where the lowercased form of a
\* namespaced string points
hLow == NormalizePath(ApplyPrefixToPath(pAX, Prefix(CmdConfig)))

\* the command invoked twice over one project
InitRerun ==
    /\ InitOneRunIdle
    /\ \E leaf \in {pAX, lAX, pDX}, fold \in BOOLEAN,
          assets \in SUBSET {pAX, pDX, hLow}, docs \in SUBSET {hDoc} :
        host = HostOver(
                 [p \in {Join(cb1, d) : d \in docs} \cup {Join(cb1, a) : a \in assets}
                    |-> IF p = Join(cb1, hDoc) THEN HostDoc(leaf)
                        ELSE IF p = Join(cb1, hLow) THEN Raw(4)
                        ELSE AssetBytes(StripPrefix(cb1, p))],
                 fold, <<cb1, cb1>>)

SpecRerun == InitRerun /\ [][NextHost]_vars

---------------------------------------------------------------------------
(* Properties                                                              *)

Reached(phase) == phase \in DOMAIN hist.snap
Snap(phase)    == hist.snap[phase]

\* C1: when the content root does not exist at the call, repath_project
\* returns InvalidInput having entered no phase, and nothing under the root
\* was created, modified or deleted.
C1_MissingRootAborts ==
    (pc # "idle" /\ <<>> \notin Snap("init").dirs) =>
        /\ pc = "done"
        /\ ret = "InvalidInput"
        /\ DOMAIN hist.snap = {"init"}
        /\ ops = <<>>
        /\ files = Snap("init").files
        /\ dirs = Snap("init").dirs

C1_Witness ==
    pc = "done" /\ ret = "InvalidInput" /\ <<>> \notin Snap("init").dirs

\* C3: a file system failure while relocating one asset is recoverable: the
\* run still reaches the cleanup phases and returns Ok.
C3_RelocationFailureRecoverable ==
    (hist.failed # <<>> /\ pc = "done") => (ret = "Ok" /\ Reached("prune"))

C3_Witness ==
    /\ hist.failed # <<>>
    /\ pc = "done" /\ ret = "Io"
    /\ ~Reached("cleanup_unused")

\* C4: for a path whose lowercase form starts with "assets/" or "data/" and
\* a non-empty prefix P, the result starts with "ASSETS/" P "/" and what
\* follows is the path without its root token, casing unchanged.
C4_NamespacingRoundTrip ==
    LET lower == ToLowercase(pf.path)
        isAssets == StartsWith(lower, strAssetsLc)
        isData == StartsWith(lower, strDataLc)
        literal == strAssetsUc \o pf.prefix \o <<"/">>
        tokenLen == IF isAssets THEN Len(strAssetsLc) ELSE Len(strDataLc)
    IN  (pf.done /\ (isAssets \/ isData) /\ pf.prefix # <<>>) =>
            /\ StartsWith(pf.out, literal)
            /\ SliceFrom(pf.out, Len(literal)) = SliceFrom(pf.path, tokenLen)

C4_Witness ==
    /\ pf.done
    /\ pf.path = <<"D", "a", "T", "a", "/", "X", "\\">>
    /\ pf.out = strAssetsUc \o pf.prefix \o <<"/", "X", "\\">>

\* the String leaves of two values of the same shape, position by position:
\* <<the leaf in a, the leaf in b>>
RECURSIVE LeafPairs(_, _)
LeafPairs(a, b) ==
    CASE a.k = "String" -> {<<a.s, b.s>>}
      [] a.k \in ChildKinds \cup {"Map"} ->
            UNION {LeafPairs(a.items[i], b.items[i]) : i \in 1..Len(a.items)}
               \cup UNION {LeafPairs(a.keys[i], b.keys[i]) : i \in 1..Len(a.keys)}
      [] OTHER -> {}

DocLeafPairs(d0, d1) ==
    UNION {UNION {LeafPairs(d0.objects[i][j], d1.objects[i][j]) :
                     j \in 1..Len(d0.objects[i])} : i \in 1..Len(d0.objects)}

\* the leaves of every document present and parseable both when Step 4
\* starts and now, as <<before Step 4, now>>
RewritePairs ==
    LET before == Snap("rewrite").files
    IN  UNION {DocLeafPairs(before[d], files[d]) :
                  d \in {x \in DOMAIN before \cap DOMAIN files :
                            before[x].ok /\ files[x].ok}}

Missing == allAssetPaths \ existing

\* the rewrite and the relocation leave a missing path alone: no leaf that
\* normalizes to it is replaced in any document, and it is never the source
\* of a relocation
MissingNeverRewritten ==
    Reached("rewrite") =>
        /\ \A p \in Missing :
              ~Exists(Snap("rewrite").files, Snap("rewrite").dirs, p)
        /\ SeqToSet(result.missing_paths) = Missing
        /\ \A pr \in RewritePairs :
              NormalizePath(pr[1]) \in Missing => pr[2] = pr[1]
        /\ \A i \in DOMAIN ops : ops[i].op = "copy" => ops[i].from \notin Missing

C2_Witness ==
    /\ pc = "done"
    /\ Reached("rewrite")
    /\ \E pr \in RewritePairs : NormalizePath(pr[1]) \in Missing
    /\ \E pr \in RewritePairs : pr[2] # pr[1]
    /\ \E i \in DOMAIN ops : ops[i].op = "copy"

\* C2: for every harvested path p that is missing, no leaf normalizing to p
\* is replaced by the rewrite, p is never relocated, and no leaf that the
\* rewrite changed is the namespaced form of p.
C2_MissingNeverInOutput ==
    /\ MissingNeverRewritten
    /\ Reached("rewrite") =>
        \A pr \in RewritePairs : \A p \in Missing :
            pr[2] # pr[1] => pr[2] # ApplyPrefixToPath(p, Prefix(config))

\* C5: every existing path that is not a document is moved: after relocation
\* its bytes are at the namespaced form of the normalized path, the source is
\* gone, and files_relocated counts these paths.
C5_ExistingAssetsMoved ==
    Reached("cleanup_unused") =>
        LET before == Snap("relocate").files
            after == Snap("cleanup_unused").files
            movable == {p \in existing : ~EndsWith(ToLowercase(p), strDotBin)}
        IN  /\ \A p \in movable :
                  LET dest == ApplyPrefixToPath(p, Prefix(config))
                  IN  /\ p \in DOMAIN before
                      /\ dest \in DOMAIN after
                      /\ after[dest] = before[p]
                      /\ p \notin DOMAIN after
            /\ result.files_relocated = Cardinality(movable)

C5_Witness ==
    /\ pc = "done" /\ ret = "Ok"
    /\ {pAX, pDX} \subseteq existing
    /\ result.files_relocated = 2
    /\ Cardinality({f \in DOMAIN files : ~HasBinExtension(f)}) = 1

\* the dependencies of the main document as Step 0 read them, in order
MainDeps ==
    IF /\ mainBin # <<>>
       /\ Reached("discover")
       /\ Readable(Snap("discover").files, mainBin[1])
    THEN Snap("discover").files[mainBin[1]].deps
    ELSE <<>>

\* where the dependencies of the main document that classify as Ignore resolve
IgnoredLocations ==
    {Resolve(mapping, NormalizePath(MainDeps[i])) :
        i \in {j \in 1..Len(MainDeps) : Classify(NormalizePath(MainDeps[j])) = "Ignore"}}

C7_MergeErrorNotFatal ==
    hist.merge = "err" =>
        /\ Reached("combine")
        /\ config.combine_linked_bins /\ mainBin # <<>>
        /\ result.bins_combined = 0
        /\ pc # "combine"
        /\ Reached("harvest") =>
              Snap("harvest").bins = Snap("combine").bins
        /\ pc = "done" =>
              /\ ret = "Ok"
              /\ {"harvest", "rewrite", "relocate", "cleanup_unused",
                  "cleanup_bins", "prune", "done"} \subseteq DOMAIN hist.snap

C7_Witness ==
    /\ hist.merge = "err"
    /\ pc = "done" /\ ret = "Ok"
    /\ Len(Snap("combine").bins) > 1
    /\ result.bins_processed > 0

PhaseOrder ==
    <<"discover", "combine", "harvest", "rewrite", "relocate",
      "cleanup_unused", "cleanup_bins", "prune", "done">>

PhaseRank(phase) == CHOOSE i \in 1..Len(PhaseOrder) : PhaseOrder[i] = phase

OpsIn(phases) == {i \in DOMAIN ops : ops[i].phase \in phases}

\* C8: the phases run in a fixed order, each finished before the next starts:
\* the mutations of the file system are ordered by phase, the partition into
\* existing and missing is fixed before any document is rewritten and stays
\* fixed, every document of the working set has been visited by the rewrite
\* before any relocation, and relocation has finished before any cleanup.
C8_PhasesInOrder ==
    /\ \A i, j \in DOMAIN ops :
          i < j => PhaseRank(ops[i].phase) <= PhaseRank(ops[j].phase)
    /\ \A k \in 2..Len(PhaseOrder) :
          Reached(PhaseOrder[k]) => Reached(PhaseOrder[k - 1])
    /\ OpsIn({"rewrite"}) # {} => Reached("rewrite")
    /\ Reached("rewrite") =>
          /\ existing = {p \in allAssetPaths :
                            Exists(Snap("rewrite").files, Snap("rewrite").dirs, p)}
          /\ allAssetPaths =
                UNION {ScanBinForPaths(Snap("harvest").files[b]) :
                          b \in {q \in SeqToSet(Snap("harvest").bins) :
                                    Readable(Snap("harvest").files, q)}}
          /\ binFiles = Snap("harvest").bins
    /\ (OpsIn({"relocate"}) # {} \/ Reached("relocate")) =>
          /\ binIdx > Len(binFiles)
          /\ result.bins_processed =
                Cardinality({i \in 1..Len(binFiles) :
                                Readable(Snap("harvest").files, binFiles[i])})
    /\ OpsIn({"cleanup_unused", "cleanup_bins", "prune"}) # {} =>
          /\ Reached("cleanup_unused")
          /\ relocTodo = {}

C8_Witness ==
    /\ pc = "done" /\ ret = "Ok"
    /\ Len(binFiles) = 2
    /\ \A ph \in {"rewrite", "relocate", "cleanup_bins", "prune"} :
          OpsIn({ph}) # {}

C9_PaddedKept ==
    /\ pc = "done" /\ ret = "Ok"
    /\ config.target_skin_id = 1
    /\ Classify(bP1) = "Animation"
    /\ bP1 \in DOMAIN files

RECURSIVE AllStrings(_)
AllStrings(v) ==
    CASE v.k = "String" -> {v.s}
      [] OTHER ->
            UNION {AllStrings(v.items[i]) : i \in 1..Len(v.items)} \cup
            UNION {AllStrings(v.keys[i]) : i \in 1..Len(v.keys)}

\* the documents Step 2 could read: the readable members of the working set
HarvestDocs ==
    {Snap("harvest").files[b] :
        b \in {q \in SeqToSet(Snap("harvest").bins) :
                  q \in DOMAIN Snap("harvest").files /\ Snap("harvest").files[q].ok}}

\* the lowercase form of s starts with "assets/" or "data/"
Qualifies(s) ==
    LET lower == [i \in 1..Len(s) |-> LowerChar(s[i])]
    IN  \/ Len(s) >= 7 /\ SubSeq(lower, 1, 7) = <<"a", "s", "s", "e", "t", "s", "/">>
        \/ Len(s) >= 5 /\ SubSeq(lower, 1, 5) = <<"d", "a", "t", "a", "/">>

\* lowercased, backslashes replaced by forward slashes
Normalized(s) ==
    [i \in 1..Len(s) |-> IF s[i] = "\\" THEN "/" ELSE LowerChar(s[i])]

C14_HarvesterSkipsMapKeys ==
    Reached("harvest") =>
        allAssetPaths =
            {Normalized(s) : s \in {x \in UNION {DocLeaves(d) : d \in HarvestDocs} :
                                       Qualifies(x)}}

C14_Witness ==
    /\ Reached("harvest")
    /\ pAY \in allAssetPaths
    /\ \A d \in HarvestDocs : pAY \notin DocLeaves(d)
    /\ \E d \in HarvestDocs : pAY \in UNION {AllStrings(v) : v \in TopValues(d)}

\* the String leaves the rewrite can reach in two values of the same shape,
\* position by position, map keys left out
RECURSIVE ValuePairs(_, _)
ValuePairs(a, b) ==
    CASE a.k = "String" -> {<<a.s, b.s>>}
      [] OTHER -> UNION {ValuePairs(a.items[i], b.items[i]) : i \in 1..Len(a.items)}

\* the number of String leaves, map keys left out, that differ between two
\* values of the same shape
RECURSIVE ChangedLeaves(_, _)
ChangedLeaves(a, b) ==
    CASE a.k = "String" -> IF a.s = b.s THEN 0 ELSE 1
      [] OTHER -> SumSeq([i \in 1..Len(a.items) |-> ChangedLeaves(a.items[i], b.items[i])])

\* a value with every String leaf outside map keys blanked: what a rewrite
\* must leave as it was
RECURSIVE Skeleton(_)
Skeleton(v) ==
    CASE v.k = "String" -> [v EXCEPT !.s = <<>>]
      [] OTHER -> [v EXCEPT !.items = [i \in 1..Len(v.items) |-> Skeleton(v.items[i])]]

DocValuePairs(d0, d1) ==
    UNION {UNION {ValuePairs(d0.objects[i][j], d1.objects[i][j]) :
                     j \in 1..Len(d0.objects[i])} : i \in 1..Len(d0.objects)}

DocChangedLeaves(d0, d1) ==
    SumSeq([i \in 1..Len(d0.objects) |->
        SumSeq([j \in 1..Len(d0.objects[i]) |->
            ChangedLeaves(d0.objects[i][j], d1.objects[i][j])])])

DocSkeleton(d) ==
    [d EXCEPT !.objects =
        [i \in 1..Len(d.objects) |->
            [j \in 1..Len(d.objects[i]) |-> Skeleton(d.objects[i][j])]]]

\* the positions of the working set whose document Step 4 could parse
RewrittenIdx ==
    {i \in 1..Len(Snap("rewrite").bins) :
        /\ Snap("rewrite").bins[i] \in DOMAIN Snap("rewrite").files
        /\ Snap("rewrite").files[Snap("rewrite").bins[i]].ok}

\* C15: once Step 4 is over, in every document it could parse a String leaf
\* has been replaced exactly when it qualifies and its normalized form is in
\* existing, the replacement being apply_prefix_to_path of the original
\* string; every other leaf, every map key and the shape of the tree are as
\* before; paths_modified is the number of leaves replaced over these
\* documents and bins_processed is the number of these documents.
C15_RewriteRule ==
    Reached("relocate") =>
        LET before == Snap("rewrite").files
            after == Snap("relocate").files
            bins == Snap("rewrite").bins
        IN  /\ \A i \in RewrittenIdx :
                  /\ bins[i] \in DOMAIN after /\ after[bins[i]].ok
                  /\ DocSkeleton(after[bins[i]]) = DocSkeleton(before[bins[i]])
                  /\ \A pr \in DocValuePairs(before[bins[i]], after[bins[i]]) :
                        pr[2] = IF Qualifies(pr[1]) /\ Normalized(pr[1]) \in existing
                                THEN ApplyPrefixToPath(pr[1], Prefix(config))
                                ELSE pr[1]
            /\ result.paths_modified =
                  SumSeq([i \in 1..Len(bins) |->
                            IF i \in RewrittenIdx
                            THEN DocChangedLeaves(before[bins[i]], after[bins[i]])
                            ELSE 0])
            /\ result.bins_processed = Cardinality(RewrittenIdx)

C15_Witness ==
    /\ Reached("relocate")
    /\ Cardinality(RewrittenIdx) = 2
    /\ result.paths_modified >= 2
    /\ \E i \in RewrittenIdx :
          LET prs == DocValuePairs(Snap("rewrite").files[Snap("rewrite").bins[i]],
                                   Snap("relocate").files[Snap("rewrite").bins[i]])
          IN  /\ \E pr \in prs : pr[1] = lAX /\ pr[2] # lAX
              /\ \E pr \in prs : pr[1] = lQ /\ pr[2] = lQ
              /\ \E pr \in prs : pr[1] = lO /\ pr[2] = lO

\* C16: Step 4 writes a document only if it replaced at least one of its
\* leaves; a working-set document with no replacement and every file outside
\* the working set has the same content after Step 4 as before and is never
\* written by it.
C16_UnchangedNotWritten ==
    /\ \A i \in OpsIn({"rewrite"}) : Reached("rewrite") /\ ops[i].op = "write"
    /\ Reached("relocate") =>
        LET before == Snap("rewrite").files
            after == Snap("relocate").files
            bins == Snap("rewrite").bins
            replaced(f) ==
                /\ \E i \in RewrittenIdx : bins[i] = f
                /\ DocChangedLeaves(before[f], after[f]) > 0
            written == {ops[i].path : i \in OpsIn({"rewrite"})}
        IN  /\ DOMAIN after = DOMAIN before
            /\ \A f \in written : replaced(f)
            /\ \A f \in DOMAIN before : ~replaced(f) => after[f] = before[f]

C16_Witness ==
    /\ Reached("relocate")
    /\ OpsIn({"rewrite"}) # {}
    /\ \E i \in RewrittenIdx :
          /\ Snap("rewrite").bins[i] \notin {ops[j].path : j \in OpsIn({"rewrite"})}
          /\ \E s \in DocLeaves(Snap("rewrite").files[Snap("rewrite").bins[i]]) : Qualifies(s)

\* the existing paths that end in the document extension
ExistingDocuments ==
    {p \in existing :
        Len(p) >= 4 /\ [i \in 1..4 |-> LowerChar(p[Len(p) - 4 + i])] = <<".", "b", "i", "n">>}

\* C17: relocation never moves a document: a member of existing that ends in
\* .bin is not the source or the destination of a copy, is not removed by
\* relocation, is where it was with the content it had when relocation began,
\* and is not counted in files_relocated.
C17_DocumentsNotRelocated ==
    /\ \A i \in OpsIn({"relocate"}) :
          /\ ops[i].path \notin ExistingDocuments
          /\ ops[i].from \notin ExistingDocuments
    /\ Reached("cleanup_unused") =>
          /\ \A p \in ExistingDocuments :
                /\ p \in DOMAIN Snap("relocate").files
                /\ p \in DOMAIN Snap("cleanup_unused").files
                /\ Snap("cleanup_unused").files[p] = Snap("relocate").files[p]
          /\ result.files_relocated <= Cardinality(existing \ ExistingDocuments)
          /\ result.files_relocated =
                Cardinality({i \in OpsIn({"relocate"}) : ops[i].op = "copy"})

C17_Witness ==
    /\ Reached("cleanup_unused")
    /\ bL \in ExistingDocuments
    /\ result.files_relocated = 1
    /\ bL \in DOMAIN Snap("cleanup_unused").files

\* the two candidates for an entity and a variant id below 10, spelled out
Candidates(champion, skinId) ==
    LET entity == [i \in 1..Len(champion) |-> LowerChar(champion[i])]
        digit == IF skinId = 0 THEN <<"0">> ELSE <<"1">>
        stem == <<"d", "a", "t", "a", "/", "c", "h", "a", "r", "a", "c", "t", "e", "r", "s", "/">>
                    \o entity \o <<"/", "s", "k", "i", "n", "s", "/", "s", "k", "i", "n">>
    IN  << stem \o digit \o <<".", "b", "i", "n">>,
           stem \o <<"0">> \o digit \o <<".", "b", "i", "n">> >>

C19_FallbackWorkingSet ==
    (Reached("combine") /\ mainBin = <<>>) =>
        LET before == Snap("discover").files
            after == Snap("combine").files
            documents == {f \in DOMAIN before : HasBinExtension(f)}
            ignore(f) == Classify(Normalized(f)) = "Ignore"
        IN  /\ SeqToSet(Snap("combine").bins) = {f \in documents : ~ignore(f)}
            /\ Len(Snap("combine").bins) = Cardinality(SeqToSet(Snap("combine").bins))
            /\ DOMAIN after = {f \in DOMAIN before : ~(f \in documents /\ ignore(f))}
            /\ \A f \in DOMAIN after : after[f] = before[f]

C19_Witness ==
    /\ pc = "done" /\ ret = "Ok"
    /\ mainBin = <<>>
    /\ {bU, bL} \subseteq DOMAIN Snap("discover").files
    /\ Classify(bL) = "Ignore" /\ bL \notin DOMAIN Snap("combine").files
    /\ Classify(Normalized(bU)) = "Ignore" /\ Classify(bU) # "Ignore"
    /\ bU \in SeqToSet(Snap("combine").bins)
    /\ result.bins_processed > 0

\* where the i-th dependency of the main document resolves: the PathMapping
\* entry of its normalized path, else the normalized path
ResolvedDep(i) ==
    IF Normalized(MainDeps[i]) \in DOMAIN mapping
    THEN mapping[Normalized(MainDeps[i])]
    ELSE Normalized(MainDeps[i])

\* C20: with a main document found, the working set that Step 0 leaves is the
\* main document followed by one element for each declared dependency that
\* does not classify as Ignore and whose resolved file exists under the root;
\* a dependency whose resolved file is absent adds nothing, and the run still
\* returns Ok.
C20_DependenciesResolved ==
    /\ (Reached("combine") /\ mainBin # <<>>) =>
        LET before == Snap("discover")
            bins == Snap("combine").bins
            added == {i \in 1..Len(MainDeps) :
                        /\ Classify(Normalized(MainDeps[i])) # "Ignore"
                        /\ \/ ResolvedDep(i) \in DOMAIN before.files
                           \/ ResolvedDep(i) \in before.dirs
                        /\ ResolvedDep(i) \notin IgnoredLocations}
        IN  /\ bins # <<>> /\ bins[1] = mainBin[1]
            /\ Len(bins) = 1 + Cardinality(added)
            /\ SeqToSet(Tail(bins)) = {ResolvedDep(i) : i \in added}
    /\ (pc = "done" /\ mainBin # <<>>) => ret = "Ok"

C20_Witness ==
    /\ pc = "done" /\ ret = "Ok"
    /\ mainBin # <<>>
    /\ MainDeps = <<depQ, depL>>
    /\ mapping = MapLtoM
    /\ Snap("combine").bins = mainBin \o <<bM>>
    /\ bL \notin DOMAIN Snap("discover").files

C20_IdentityCase ==
    /\ pc = "done" /\ ret = "Ok"
    /\ mainBin # <<>>
    /\ mapping = NoMapping
    /\ Snap("combine").bins = mainBin \o <<bL>>

---------------------------------------------------------------------------
(* Invocations of the command side by side                                 *)

\* what the machine holds at and below a content root
TreeBelow(h, base) ==
    [files |-> [f \in {g \in DOMAIN h.files : Below(Key(h, base), g)} |-> h.files[f]],
     dirs |-> {d \in h.dirs : d = Key(h, base) \/ Below(Key(h, base), d)}]

AllReturned == host.inv # <<>> /\ \A i \in DOMAIN host.inv : host.inv[i].pc = "done"

\* the content roots are different and none lies below another
RootsApart ==
    \A i, j \in DOMAIN host.inv :
        i # j => /\ host.inv[i].content_base # host.inv[j].content_base
                 /\ ~Below(host.inv[i].content_base, host.inv[j].content_base)

\* C11: when two invocations over different content roots, none below the
\* other, have returned, however their steps were interleaved, each has
\* returned what it returns when it runs alone from the same start, and has
\* left its own content root as it leaves it when it runs alone.
C11_InvocationsIndependent ==
    (AllReturned /\ RootsApart) =>
        \A i \in DOMAIN host.inv :
            LET alone == RunAlone(StartOf(host), i)
                base == host.inv[i].content_base
            IN  /\ host.inv[i].ret = alone.inv[i].ret
                /\ host.inv[i].result = alone.inv[i].result
                /\ TreeBelow(host, base) = TreeBelow(alone, base)

\* two invocations over the roots of two projects have both returned Ok and
\* relocated an asset, each having scanned its documents before the other
\* rewrote any
C11_Witness ==
    /\ AllReturned
    /\ RootsApart
    /\ \A i \in DOMAIN host.inv :
        /\ host.inv[i].ret = "Ok"
        /\ host.inv[i].result.files_relocated >= 1
        /\ host.inv[i].snap["harvest"].files = host.start.files

---------------------------------------------------------------------------
(* The command invoked again over a project it has namespaced              *)

\* "ASSETS/<prefix>/"
Namespace == strAssetsUc \o Prefix(CmdConfig) \o <<"/">>

\* a string of the form "ASSETS/<prefix>/x", and "ASSETS/<prefix>/<prefix>/x"
Namespaced(s) == StartsWith(s, Namespace) /\ Len(s) > Len(Namespace)
NamespacedTwice(s) == Namespace \o Prefix(CmdConfig) \o <<"/">> \o SliceFrom(s, Len(Namespace))

\* the second invocation over the content root of the first has returned Ok
RerunReturned ==
    /\ Len(host.inv) = 2
    /\ host.inv[1].content_base = host.inv[2].content_base
    /\ host.inv[1].ret = "Ok"
    /\ host.inv[2].pc = "done"
    /\ host.inv[2].ret = "Ok"

\* the machine as the second invocation found it when the given step began
AsAt(phase) ==
    [host EXCEPT !.files = host.inv[2].snap[phase].files,
                 !.dirs = host.inv[2].snap[phase].dirs]

\* the String leaves outside map keys of the documents of the second
\* invocation, as <<before its Step 4, after its Step 4>>
RerunPairs ==
    LET base == host.inv[2].content_base
        before == AsAt("rewrite")
        after == AsAt("relocate")
    IN  UNION {DocValuePairs(ContentAt(before, base, b), ContentAt(after, base, b)) :
                  b \in {x \in host.inv[2].bin_files : ReadableAt(before, base, x)}}

\* the file a string names is on disk when the second invocation reconciles
Present(s) == IsFileAt(AsAt("rewrite"), Join(host.inv[2].content_base, s))

\* the second invocation has moved the file the string s names to the place
\* "ASSETS/<prefix>/<prefix>/x" names
RelocatedAgain(s) ==
    LET base == host.inv[2].content_base
        before == AsAt("rewrite")
        after == AsAt("cleanup_unused")
    IN  /\ IsFileAt(after, Join(base, NamespacedTwice(s)))
        /\ ContentAt(after, base, NamespacedTwice(s)) = ContentAt(before, base, s)
        /\ ~IsFileAt(after, Join(base, s))
        /\ host.inv[2].result.files_relocated >= 1

\* the statement as claimed: in a second run every string "ASSETS/<prefix>/x"
\* whose relocated file is present is rewritten to
\* "ASSETS/<prefix>/<prefix>/x" and its file relocated again
C12_RerunDoublePrefixes ==
    RerunReturned =>
        \A pair \in RerunPairs :
            (Namespaced(pair[1]) /\ Present(pair[1])) =>
                /\ pair[2] = NamespacedTwice(pair[1])
                /\ RelocatedAgain(pair[1])

\* C12: in a second run with the same configuration, a string
\* "ASSETS/<prefix>/x" is rewritten to "ASSETS/<prefix>/<prefix>/x" exactly
\* when its lowercased form names something under the content root, and is
\* otherwise left as it is and reported missing.  On a file system that
\* resolves names without regard to case this is so whenever the relocated
\* file is present, and the file is relocated again; on a file system that
\* resolves names exactly the relocated file "ASSETS/<prefix>/x" is not what
\* the lowercased form names, and with nothing else under that name the
\* string is left as it is.
C12_RerunDoublePrefixesWhenFound ==
    RerunReturned =>
        \A pair \in RerunPairs :
            Namespaced(pair[1]) =>
                LET s == pair[1]
                    found == Normalized(s) \in host.inv[2].existing_paths
                    lowercaseThere ==
                        ExistsAt(AsAt("rewrite"),
                                 Join(host.inv[2].content_base, Normalized(s)))
                IN  /\ found <=> lowercaseThere
                    /\ found => pair[2] = NamespacedTwice(s)
                    /\ ~found =>
                        /\ pair[2] = s
                        /\ Normalized(s) \in SeqToSet(host.inv[2].result.missing_paths)
                    /\ (host.fold /\ Present(s)) => found /\ RelocatedAgain(s)

\* a second run on a file system that resolves names without regard to case
\* has doubled the prefix of a string and relocated its file again
C12_Witness ==
    /\ RerunReturned
    /\ host.fold
    /\ \E pair \in RerunPairs :
        /\ Namespaced(pair[1])
        /\ Present(pair[1])
        /\ pair[2] = NamespacedTwice(pair[1])
        /\ RelocatedAgain(pair[1])

\* a second run on a file system that resolves names exactly has left a
\* namespaced string, whose relocated file is present, as it was
C12_ExactNamesCase ==
    /\ RerunReturned
    /\ ~host.fold
    /\ \E pair \in RerunPairs :
        /\ Namespaced(pair[1])
        /\ Present(pair[1])
        /\ pair[2] = pair[1]

\* a second run on a file system that resolves names exactly has doubled
\* the prefix of a string because another file lies under the lowercased name
C12_ExactNamesOtherFile ==
    /\ RerunReturned
    /\ ~host.fold
    /\ \E pair \in RerunPairs :
        /\ Namespaced(pair[1])
        /\ Present(pair[1])
        /\ pair[2] = NamespacedTwice(pair[1])

---------------------------------------------------------------------------
(* Consolidation                                                           *)

\* the documents the merge routine deleted
Consumed == DOMAIN Snap("combine").files \ DOMAIN Snap("harvest").files

MergeSucceeded == hist.merge = "ok" /\ Reached("harvest")

\* what the merge step does to the working set and the result, and what
\* follows for the later steps, the combined document's path left aside
MergeEffects ==
    LET before == Snap("combine").bins
        after == Snap("harvest").bins
    IN  /\ SeqToSet(after) \cap Consumed = {}
        /\ SeqToSet(after) \ {ConcatPath} = SeqToSet(before) \ (Consumed \cup {ConcatPath})
        /\ result.bins_combined = Cardinality(Consumed)
        /\ \A i \in DOMAIN ops :
              ops[i].phase = "rewrite" => ops[i].path \notin Consumed
        /\ Reached("rewrite") =>
              allAssetPaths =
                 UNION {ScanBinForPaths(Snap("harvest").files[p]) :
                          p \in {q \in SeqToSet(after) :
                                    Readable(Snap("harvest").files, q)}}

\* the statement as claimed: the merge is attempted only with the combine
\* flag set and a main document found, and after a successful merge the
\* working set contains the combined document's path, none of the consumed
\* source paths, bins_combined is their number, and no consumed document is
\* harvested or rewritten later
C21_MergeAddsCombined ==
    /\ hist.merge # "none" => config.combine_linked_bins /\ mainBin # <<>>
    /\ MergeSucceeded =>
        /\ ConcatPath \in SeqToSet(Snap("harvest").bins)
        /\ MergeEffects

\* C21: the merge is attempted only with the combine flag set and a main
\* document found; after a successful merge the working set contains the
\* combined document's path if a file exists at that path, and otherwise
\* only loses the consumed source paths; it contains none of the consumed
\* source paths, bins_combined is their number, and no consumed document is
\* harvested or rewritten later.
C21_MergeAddsCombinedIfPresent ==
    /\ hist.merge # "none" => config.combine_linked_bins /\ mainBin # <<>>
    /\ MergeSucceeded =>
        /\ ConcatPath \in SeqToSet(Snap("harvest").bins)
              <=> Exists(Snap("harvest").files, Snap("harvest").dirs, ConcatPath)
        /\ MergeEffects

\* a run has returned after a merge that consumed a document and wrote the
\* combined one, which was then rewritten
C21_Witness ==
    /\ MergeSucceeded
    /\ pc = "done"
    /\ ret = "Ok"
    /\ Consumed # {}
    /\ ConcatPath \in SeqToSet(Snap("harvest").bins)
    /\ \E i \in DOMAIN ops : ops[i].phase = "rewrite" /\ ops[i].path = ConcatPath

\* a merge has succeeded that reported no source and wrote no combined document
C21_NothingCombined ==
    /\ MergeSucceeded
    /\ Consumed = {}
    /\ ~Exists(Snap("harvest").files, Snap("harvest").dirs, ConcatPath)

---------------------------------------------------------------------------
(* The combined document and the irrelevant-documents cleanup              *)

\* a file whose name, lowercased, contains "__concat"
HasMarker(f) == Contains(ToLowercase(FileName(f)), strConcat)

\* C22: a document whose file name contains the marker __concat is on disk
\* after the irrelevant-documents cleanup, with its content, if it was
\* before, whatever its class; and a combined document that the merge of
\* this run wrote is on disk when the run returns.
C22_CombinedSurvivesCleanup ==
    /\ Reached("prune") =>
        \A f \in DOMAIN Snap("cleanup_bins").files :
            HasMarker(f) =>
                /\ f \in DOMAIN Snap("prune").files
                /\ Snap("prune").files[f] = Snap("cleanup_bins").files[f]
    /\ (MergeSucceeded /\ Consumed # {} /\ pc = "done") =>
        /\ HasMarker(ConcatPath)
        /\ ConcatPath \in DOMAIN files

\* a run has returned after a merge wrote the combined document, whose class
\* is Ignore or ChampionRoot, and the irrelevant-documents cleanup has run
\* over it
C22_Witness ==
    /\ MergeSucceeded
    /\ Consumed # {}
    /\ pc = "done"
    /\ ret = "Ok"
    /\ Classify(ConcatPath) \in {"Ignore", "ChampionRoot"}
    /\ Reached("prune")
    /\ ConcatPath \in DOMAIN Snap("cleanup_bins").files

---------------------------------------------------------------------------
(* The empty-directory pass                                                *)

\* the files and directories directly in a directory
EntriesOf(fs, ds, d) == {e \in (DOMAIN fs \cup ds) \ {<<>>} : Parent(e) = d}

C23_RootRemoved ==
    /\ Reached("done")
    /\ <<>> \in Snap("prune").dirs
    /\ Snap("prune").dirs # {<<>>}
    /\ Snap("done").dirs = {}

---------------------------------------------------------------------------
(* Reconciliation                                                          *)

\* the union of what scan_bin_for_paths returns for the documents of the
\* working set that could be read when Step 2 ran
HarvestedUnion ==
    UNION {ScanBinForPaths(Snap("harvest").files[p]) :
              p \in {q \in SeqToSet(Snap("harvest").bins) :
                        q \in DOMAIN Snap("harvest").files
                            /\ Snap("harvest").files[q].ok}}

\* C24: once Step 3 has run, existing_paths and missing_paths are disjoint,
\* together they are the union of the harvested sets of the working-set
\* documents, a path is in existing_paths exactly when content_base/path was
\* a file or directory on disk when Step 3 ran, and missing_paths lists each
\* missing path once and no existing one.
C24_ExistingMissingPartition ==
    Reached("rewrite") =>
        LET missing == SeqToSet(result.missing_paths)
            onDisk == DOMAIN Snap("rewrite").files \cup Snap("rewrite").dirs
        IN  /\ existing \cap missing = {}
            /\ existing \cup missing = HarvestedUnion
            /\ allAssetPaths = HarvestedUnion
            /\ \A p \in HarvestedUnion : p \in existing <=> p \in onDisk
            /\ Len(result.missing_paths) = Cardinality(missing)

\* Step 3 has run over the paths of two documents, of which one path was on
\* disk and two were not
C24_Witness ==
    /\ Reached("rewrite")
    /\ Len(Snap("harvest").bins) >= 2
    /\ existing # {}
    /\ Len(result.missing_paths) >= 2

---------------------------------------------------------------------------
(* Relocation destinations                                                 *)

\* the existing paths relocate_assets does not skip
Relocatable == {p \in existing : ~IsDocumentPath(p)}

\* where relocate_assets puts an existing path
Destination(p) == ApplyPrefixToPath(p, Prefix(config))

\* the files under "ASSETS/<prefix>" in a file system
UnderNamespace(fs) ==
    {f \in DOMAIN fs : StartsWith(f, strAssetsUc \o Prefix(config) \o <<"/">>)}

\* C25: once relocation has run, two distinct existing paths that are not
\* documents have distinct destinations, so no copy of the pass has written
\* where an earlier copy of the pass wrote, and files_relocated is the number
\* of files that are under the namespace after the pass and were not before.
C25_DestinationsDistinct ==
    Reached("cleanup_unused") =>
        /\ \A p, q \in Relocatable : p # q => Destination(p) # Destination(q)
        /\ \A i, j \in OpsIn({"relocate"}) :
              (i < j /\ ops[i].op = "copy" /\ ops[j].op = "copy")
                  => ops[i].path # ops[j].path
        /\ result.files_relocated =
              Cardinality(UnderNamespace(Snap("cleanup_unused").files)
                              \ UnderNamespace(Snap("relocate").files))

\* relocation has run over assets/x.dds and data/x.dds, both on disk with
\* different bytes, and has counted two relocations
C25_Witness ==
    /\ Reached("cleanup_unused")
    /\ {pAX, pDX} \subseteq Relocatable
    /\ {pAX, pDX} \subseteq DOMAIN Snap("relocate").files
    /\ Snap("relocate").files[pAX] # Snap("relocate").files[pDX]
    /\ result.files_relocated = 2

---------------------------------------------------------------------------
(* Reference integrity                                                     *)

\* the documents of the working set that Step 4 could read
RewrittenDocs ==
    {d \in SeqToSet(Snap("rewrite").bins) :
        /\ d \in DOMAIN Snap("rewrite").files /\ Snap("rewrite").files[d].ok
        /\ d \in DOMAIN Snap("relocate").files /\ Snap("relocate").files[d].ok}

\* <<string before Step 4, string after>> for the strings Step 4 replaced
Replaced ==
    {pr \in UNION {DocValuePairs(Snap("rewrite").files[d], Snap("relocate").files[d]) :
                      d \in RewrittenDocs} : pr[1] # pr[2]}

\* the existing paths whose file relocate_assets moved
MovedAssets ==
    {ops[i].from : i \in {j \in OpsIn({"relocate"}) : ops[j].op = "copy"}}

\* every string, map keys included, of the working-set documents as Step 4
\* left them
StringsAfterRewrite ==
    UNION {UNION {AllStrings(v) : v \in TopValues(Snap("relocate").files[d])} :
              d \in RewrittenDocs}

\* the string names, case and separators aside, a file of the file system
NamesAFile(fs, s) == \E f \in DOMAIN fs : NormalizePath(f) = NormalizePath(s)

\* C26, first half: when a run has returned Ok, every string Step 4 replaced
\* names, compared case-insensitively, a file that is on disk under the
\* content root.
ReplacedStringsResolve ==
    (pc = "done" /\ ret = "Ok") =>
        \A pr \in Replaced : NamesAFile(files, pr[2])

\* C26, second half: when a run has returned Ok, no string of a working-set
\* document still refers to the old place of an asset that was moved.
MovedAssetsFullyRewritten ==
    (pc = "done" /\ ret = "Ok") =>
        \A p \in MovedAssets :
            \A s \in StringsAfterRewrite : ~(Qualifies(s) /\ Normalized(s) = p)

\* C26: when a run has returned Ok, every string the rewrite replaced names,
\* compared case-insensitively, a file on disk under the content root, and
\* every reference to a moved asset in the working-set documents has been
\* rewritten.
C26_ReferenceIntegrity == ReplacedStringsResolve /\ MovedAssetsFullyRewritten

\* a run has returned Ok after replacing a string that named a document on
\* disk, which relocation skipped
C26_Witness ==
    /\ pc = "done"
    /\ ret = "Ok"
    /\ \E pr \in Replaced :
        /\ IsDocumentPath(pr[1])
        /\ Normalized(pr[1]) \in DOMAIN Snap("relocate").files
        /\ ~NamesAFile(files, pr[2])

\* a run has returned Ok after moving an asset that a map key names
C26_MapKeyCase ==
    /\ pc = "done"
    /\ ret = "Ok"
    /\ \E p \in MovedAssets : \E s \in StringsAfterRewrite : Qualifies(s) /\ Normalized(s) = p

---------------------------------------------------------------------------
(* What a run touches outside its content root                             *)

\* invocation i is the only one that has taken a step
OnlyStarted(i) == \A j \in DOMAIN host.inv : j # i => host.inv[j].pc = "idle"

\* the files and directories of the machine that are not at or below base
Outside(h, fs, ds, base) ==
    [files |-> [f \in {g \in DOMAIN fs : ~Below(Key(h, base), g)} |-> fs[f]],
     dirs |-> {d \in ds : d # Key(h, base) /\ ~Below(Key(h, base), d)}]

\* C27: while one invocation alone has run, whatever strings its documents
\* hold, every file and directory of the machine outside its content root is
\* as it was before: nothing there is created, modified or deleted.
C27_NothingOutsideRootTouched ==
    \A i \in DOMAIN host.inv :
        (OnlyStarted(i) /\ RootsApart) =>
            Outside(host, host.files, host.dirs, host.inv[i].content_base)
                = Outside(host, host.start.files, host.start.dirs,
                          host.inv[i].content_base)

\* an invocation whose document holds a string with ".." segments, naming a
\* file of the other project that is on disk, has returned Ok on its own
C27_Witness ==
    /\ host.inv # <<>>
    /\ RootsApart
    /\ OnlyStarted(1)
    /\ host.inv[1].pc = "done"
    /\ host.inv[1].ret = "Ok"
    /\ NormalizePath(hOut) \in host.inv[1].existing_paths

---------------------------------------------------------------------------
(* The working set when the dependency list repeats itself                 *)

\* dependency lists of the main document: one linked document named once,
\* named twice (in two spellings), named beside the path PathMapping
\* resolves it to, and the main document naming itself
depM == bM
depSelf == bS0

DepLists ==
    {<<depL>>, <<depL, depL>>, <<depL, bL>>, <<depL, depM>>, <<depSelf>>}

\* a content tree whose main document carries one of these lists
InitDeps ==
    /\ InitRun
    /\ config \in Configs
    /\ classify \in Classifiers
    /\ classify[bS0] = "LinkedData"
    /\ classify[bU] = "LinkedData"
    /\ classify[NormalizePath(bU)] = "LinkedData"
    /\ classify[ConcatPath] = "LinkedData"
    /\ \E deps \in DepLists, assets \in SUBSET {pAX}, bins \in SUBSET {bL, bM} :
        /\ bins = {} => classify[bL] = "LinkedData"
        /\ mapping = IF bM \in bins THEN MapLtoM ELSE NoMapping
        /\ files = [p \in assets \cup bins \cup {bS0} |->
                        IF p \in assets THEN AssetBytes(p)
                        ELSE IF p = bS0 THEN Doc(deps, SkinObjects(FALSE))
                        ELSE LinkedDoc]
        /\ dirs = UNION {Ancestors(p) : p \in assets \cup bins \cup {bS0}} \cup {<<>>}
    /\ hist = InitHist
    /\ pf = IdlePf
    /\ host = IdleHost

SpecDeps == InitDeps /\ [][Next]_vars

\* no element of the sequence occurs at two positions
NoRepeat(s) == \A i, j \in DOMAIN s : s[i] = s[j] => i = j

\* C28: the working set holds no document twice, and the run reports at most
\* as many processed documents as there are documents on disk when the
\* rewrite begins, whatever the main document's dependency list repeats.
C28_WorkingSetDistinct ==
    /\ NoRepeat(binFiles)
    /\ (pc = "done" /\ ret = "Ok") =>
            result.bins_processed <= Cardinality(WalkBins(Snap("rewrite").files,
                                                          Snap("rewrite").dirs))

\* a run whose main document names one file on disk twice has returned Ok
C28_Witness ==
    /\ pc = "done"
    /\ ret = "Ok"
    /\ mainBin # <<>>
    /\ Readable(Snap("discover").files, mainBin[1])
    /\ LET deps == Snap("discover").files[mainBin[1]].deps
       IN  \E i, j \in DOMAIN deps :
            /\ i # j
            /\ Classify(NormalizePath(deps[i])) # "Ignore"
            /\ Classify(NormalizePath(deps[j])) # "Ignore"
            /\ Resolve(mapping, NormalizePath(deps[i]))
                    = Resolve(mapping, NormalizePath(deps[j]))
            /\ Resolve(mapping, NormalizePath(deps[i])) \in DOMAIN Snap("discover").files

\* a run whose main document names itself has returned Ok
C28_WitnessSelf ==
    /\ pc = "done"
    /\ ret = "Ok"
    /\ mainBin # <<>>
    /\ Readable(Snap("discover").files, mainBin[1])
    /\ \E i \in DOMAIN Snap("discover").files[mainBin[1]].deps :
            NormalizePath(Snap("discover").files[mainBin[1]].deps[i]) = mainBin[1]

---------------------------------------------------------------------------
(* The call with an empty entity identifier                                *)

\* the documents on disk in a snapshot, by their extension
DocumentsOnDisk(s) == {p \in DOMAIN s.files : HasBinExtension(p)}

\* what repath_project_cmd passes: empty entity, variant 0, both flags set
IsCommandCall(c) ==
    /\ c.champion = CmdConfig.champion
    /\ c.target_skin_id = CmdConfig.target_skin_id
    /\ c.combine_linked_bins = CmdConfig.combine_linked_bins
    /\ c.cleanup_unused = CmdConfig.cleanup_unused

\* C29: with an empty entity identifier no main document is ever found, the
\* working set is the scan of the whole tree (every document left on disk
\* by Discovery), the merge routine is never invoked although the combine
\* flag is set, and bins_combined stays 0; the command's configuration is
\* such a call.
C29_EmptyEntityNeverCombines ==
    /\ CmdConfig.champion = <<>>
    /\ CmdConfig.target_skin_id = 0
    /\ CmdConfig.combine_linked_bins
    /\ CmdConfig.cleanup_unused
    /\ config.champion = <<>> =>
        /\ mainBin = <<>>
        /\ hist.merge = "none"
        /\ result.bins_combined = 0
        /\ \A o \in SeqToSet(ops) : o.phase # "combine"
        /\ Reached("combine") =>
            /\ SeqToSet(Snap("combine").bins) = DocumentsOnDisk(Snap("combine"))
            /\ binFiles = Snap("combine").bins

\* the command's call has returned Ok over a tree that holds a skin
\* document of some entity and a linked document: a merge had sources
C29_Witness ==
    /\ IsCommandCall(config)
    /\ pc = "done"
    /\ ret = "Ok"
    /\ {bS0, bL} \subseteq SeqToSet(binFiles)
    /\ Readable(Snap("combine").files, bS0)
    /\ Readable(Snap("combine").files, bL)

---------------------------------------------------------------------------
(* What files_removed counts                                               *)

\* the positions of the history at which the given phase did the given
\* operation
OpsDoing(phase, op) == {k \in DOMAIN ops : ops[k].phase = phase /\ ops[k].op = op}

\* C30: files_removed is at every moment the number of files the unused-
\* files pass has deleted; the documents deleted by the irrelevant-documents
\* pass, the Ignore documents deleted by Discovery and the directories
\* removed by the prune pass are counted neither there nor in another field:
\* on return files_relocated is the number of copies and bins_processed at
\* most the length of the working set.
C30_FilesRemovedCountsUnusedOnly ==
    /\ result.files_removed = Cardinality(OpsDoing("cleanup_unused", "remove_file"))
    /\ (pc = "done" /\ ret = "Ok") =>
        /\ result.files_relocated = Cardinality(OpsDoing("relocate", "copy"))
        /\ result.bins_processed <= Len(binFiles)

\* a run has returned Ok after the unused-files pass, the irrelevant-
\* documents pass, Discovery and the prune pass each deleted something
C30_Witness ==
    /\ pc = "done"
    /\ ret = "Ok"
    /\ OpsDoing("cleanup_unused", "remove_file") # {}
    /\ OpsDoing("cleanup_bins", "remove_file") # {}
    /\ OpsDoing("discover", "remove_file") # {}
    /\ OpsDoing("prune", "remove_dir") # {}

=============================================================================
